---- MODULE Spec2Model ----
(***************************************************************************)
(* QuickAdd: the capture parser (shared/parser.ts, shared/time.ts).        *)
(*                                                                         *)
(* Representation                                                          *)
(*   - text is a TLA+ string; characters are its one-character substrings. *)
(*   - an instant is an integer number of minutes since day 0, 00:00 UTC.  *)
(*   - a luxon DateTime is [ts, zone, valid]; an ISO string is             *)
(*     [wall, offset]: the wall-clock minutes and the UTC offset it shows. *)
(*   - an optional value is Undefined or Some(v).                          *)
(*   - confidence is counted in hundredths (0.40 is 40).                   *)
(***************************************************************************)
EXTENDS Integers, Sequences, FiniteSets, TLC

(***************************************************************************)
(* Bounds of the model.                                                    *)
(***************************************************************************)
MaxCandidates == 4
MaxTicks == 1
MaxRuns == 2
MaxRequests == 2
\* the requests the content script sends
MaxSends == 2
\* the input events of the edit section of the card
MaxEdits == 1

(***************************************************************************)
(* Optional values.                                                        *)
(***************************************************************************)
Undefined == [defined |-> FALSE]
Some(v) == [defined |-> TRUE, value |-> v]

Min(a, b) == IF a < b THEN a ELSE b
Max(a, b) == IF a > b THEN a ELSE b

(***************************************************************************)
(* Characters and strings (String.prototype / RegExp character classes).   *)
(***************************************************************************)
Digits == {"0", "1", "2", "3", "4", "5", "6", "7", "8", "9"}
UpperAlphabet == "ABCDEFGHIJKLMNOPQRSTUVWXYZ"
LowerAlphabet == "abcdefghijklmnopqrstuvwxyz"
UpperLetters == {SubSeq(UpperAlphabet, i, i) : i \in 1..26}
LowerLetters == {SubSeq(LowerAlphabet, i, i) : i \in 1..26}
\* \s of a regular expression and the characters trim removes, among the
\* characters a text of the model can hold: the space, the tab, the line feed,
\* the carriage return, the form feed and the vertical tab (U+000B, which has
\* no escape in a string and is written as the character itself)
WhiteSpace == {" ", "\t", "\n", "\r", "\f", ""}
AlphaNum == Digits \cup UpperLetters \cup LowerLetters
WordChars == AlphaNum \cup {"_"}

CharAt(s, i) == IF i >= 1 /\ i <= Len(s) THEN SubSeq(s, i, i) ELSE ""

LowerChar(c) ==
    IF c \in UpperLetters
    THEN LET i == CHOOSE j \in 1..26 : SubSeq(UpperAlphabet, j, j) = c
         IN SubSeq(LowerAlphabet, i, i)
    ELSE c

RECURSIVE toLowerCase(_)
toLowerCase(s) ==
    IF Len(s) = 0 THEN ""
    ELSE LowerChar(SubSeq(s, 1, 1)) \o toLowerCase(SubSeq(s, 2, Len(s)))

RECURSIVE trimStart(_)
trimStart(s) ==
    IF Len(s) > 0 /\ SubSeq(s, 1, 1) \in WhiteSpace
    THEN trimStart(SubSeq(s, 2, Len(s)))
    ELSE s

RECURSIVE trimEnd(_)
trimEnd(s) ==
    IF Len(s) > 0 /\ SubSeq(s, Len(s), Len(s)) \in WhiteSpace
    THEN trimEnd(SubSeq(s, 1, Len(s) - 1))
    ELSE s

trim(s) == trimEnd(trimStart(s))

startsWith(s, k) == Len(s) >= Len(k) /\ SubSeq(s, 1, Len(k)) = k

includes(s, k) ==
    \E i \in 1..(Len(s) - Len(k) + 1) : SubSeq(s, i, i + Len(k) - 1) = k

\* \b at the position between characters p-1 and p (p in 1..Len(s)+1)
WordBoundary(s, p) == (CharAt(s, p - 1) \in WordChars) # (CharAt(s, p) \in WordChars)

\* all of s[from..from+n-1] exist and lie in class
AllIn(s, from, n, class) ==
    /\ from + n - 1 <= Len(s)
    /\ \A j \in from..(from + n - 1) : SubSeq(s, j, j) \in class

(***************************************************************************)
(* Keyword tables.                                                         *)
(***************************************************************************)
EVENT_KEYWORDS ==
    << "meet", "meeting", "call", "sync", "standup", "retro", "review", "demo",
       "interview", "lecture", "class", "webinar", "workshop", "room", "zoom",
       "google meet", "teams" >>

TASK_KEYWORDS ==
    << "submit", "finish", "complete", "send", "write", "todo", "follow up",
       "review", "ship", "publish", "draft", "prepare", "remind", "pay" >>

PRIORITY_HIGH == << "urgent", "asap", "priority", "important", "critical" >>
PRIORITY_MEDIUM == << "soon", "follow up", "remind", "next" >>
PRIORITY_LOW == << "whenever", "sometime", "later" >>

DEFAULTS ==
    [ durationMinutes |-> 60, reminderMinutes |-> 10, taskDueHour |-> 17,
      taskDueMinute |-> 0, locale |-> "en", tz |-> "UTC" ]

scoreText(text, keywords) ==
    LET lower == toLowerCase(text)
    IN Cardinality({i \in 1..Len(keywords) : includes(lower, keywords[i])})

detectPriority(text) ==
    LET lower == toLowerCase(text)
        some(ks) == \E i \in 1..Len(ks) : includes(lower, ks[i])
    IN IF some(PRIORITY_HIGH) THEN Some("high")
       ELSE IF some(PRIORITY_MEDIUM) THEN Some("medium")
       ELSE IF some(PRIORITY_LOW) THEN Some("low")
       ELSE Undefined

inferTitle(text) ==
    LET trimmed == trim(text)
    IN IF Len(trimmed) <= 64 THEN trimmed ELSE SubSeq(trimmed, 1, 61) \o "..."

\* the em dash and the curly quotes of the template are written in ASCII
buildNotes(title, url, quote) ==
    "From: " \o title \o " - " \o url \o "\nQuote: '" \o trim(quote) \o "'"

\* /\b\d{1,2}[:\.\-]?\d{0,2}\s?(am|pm)?\b/i : a match is a start position i
\* and a length for each optional part such that every part fits.
ClockTimeRegex(text) ==
    \E i \in {j \in 1..Len(text) : SubSeq(text, j, j) \in Digits} : \E d1 \in 1..2 : \E s \in 0..1 : \E d2 \in 0..2 :
    \E w \in 0..1 : \E a \in {0, 2} :
        LET pSep == i + d1
            pMin == pSep + s
            pWs == pMin + d2
            pAm == pWs + w
            pEnd == pAm + a
        IN /\ pEnd <= Len(text) + 1
           /\ WordBoundary(text, i)
           /\ AllIn(text, i, d1, Digits)
           /\ AllIn(text, pSep, s, {":", ".", "-"})
           /\ AllIn(text, pMin, d2, Digits)
           /\ AllIn(text, pWs, w, WhiteSpace)
           /\ (a = 2 => toLowerCase(SubSeq(text, pAm, pAm + 1)) \in {"am", "pm"})
           /\ WordBoundary(text, pEnd)

\* /\bnoon\b|\bmidnight\b/i
NoonRegex(text) ==
    \E w \in {"noon", "midnight"} : \E i \in 1..(Len(text) - Len(w) + 1) :
        /\ toLowerCase(SubSeq(text, i, i + Len(w) - 1)) = w
        /\ WordBoundary(text, i)
        /\ WordBoundary(text, i + Len(w))

hasExplicitTime(text) == ClockTimeRegex(text) \/ NoonRegex(text)

\* variant: neither the cap on the keyword contribution nor the final clamp
computeConfidenceUnbounded(text, kind, hasDuration, hasDate) ==
    LET eventScore == scoreText(text, EVENT_KEYWORDS)
        taskScore == scoreText(text, TASK_KEYWORDS)
        c0 == 40 + (eventScore + taskScore) * 5
        c1 == IF kind = "event" /\ hasDuration THEN c0 + 20 ELSE c0
        c2 == IF kind = "task" /\ ~hasDuration THEN c1 + 10 ELSE c1
    IN IF hasDate THEN c2 + 15 ELSE c2

computeConfidence(text, kind, hasDuration, hasDate) ==
    LET eventScore == scoreText(text, EVENT_KEYWORDS)
        taskScore == scoreText(text, TASK_KEYWORDS)
        c0 == 40 + Min(eventScore + taskScore, 3) * 5
        c1 == IF kind = "event" /\ hasDuration THEN c0 + 20 ELSE c0
        c2 == IF kind = "task" /\ ~hasDuration THEN c1 + 10 ELSE c1
        c3 == IF hasDate THEN c2 + 15 ELSE c2
    IN Max(10, Min(c3, 98))

(***************************************************************************)
(* Time (shared/time.ts and the luxon operations it uses).                 *)
(***************************************************************************)
MinutesPerDay == 24 * 60

\* the zones known to the host's timezone database, with their UTC offsets
\* in minutes (zones without daylight saving time)
KnownZones == {"UTC", "utc", "Asia/Kolkata", "Asia/Tokyo"}
ZoneOffset(zone) ==
    CASE zone = "Asia/Kolkata" -> 330
      [] zone = "Asia/Tokyo" -> 540
      [] OTHER -> 0

DateTime(ts, zone) == [ts |-> ts, zone |-> zone, valid |-> zone \in KnownZones]

\* variant: an unresolvable zone is replaced by UTC
setZoneLenient(dt, zone) ==
    [ts |-> dt.ts, zone |-> IF zone \in KnownZones THEN zone ELSE "UTC", valid |-> dt.valid]

\* dt.setZone(zone): the same instant shown in another zone
setZone(dt, zone) == [ts |-> dt.ts, zone |-> zone, valid |-> dt.valid /\ zone \in KnownZones]

\* dt.plus({ minutes })
plus(dt, minutes) == [dt EXCEPT !.ts = dt.ts + minutes]

\* wall-clock minutes shown by dt in its zone
Wall(dt) == dt.ts + ZoneOffset(dt.zone)

\* dt.set({ hour, minute, second: 0, millisecond: 0 })
setTime(dt, hour, minute) ==
    [dt EXCEPT !.ts = (Wall(dt) \div MinutesPerDay) * MinutesPerDay
                      + hour * 60 + minute - ZoneOffset(dt.zone)]

\* DateTime.fromISO(iso, { zone }): a string with an offset names an instant,
\* one without is read as wall-clock time in zone
fromISO(iso, zone) ==
    IF iso.offset.defined
    THEN DateTime(iso.wall - iso.offset.value, zone)
    ELSE DateTime(iso.wall - ZoneOffset(zone), zone)

\* variant: the override is ignored and the host's clock is read
nowIgnoringOverride(tz, override, wallClock) == DateTime(wallClock, tz)

now(tz, override, wallClock) ==
    IF override.defined THEN fromISO(override.value, tz) ELSE DateTime(wallClock, tz)

\* dt.toISO(): wall-clock time and offset of dt's zone; null when dt is invalid
toISO(dt) ==
    IF dt.valid
    THEN Some([wall |-> Wall(dt), offset |-> Some(ZoneOffset(dt.zone))])
    ELSE Undefined

\* toIso throws 'Invalid DateTime instance' when toISO gives null: the
\* result is Undefined and the caller propagates the exception
toIso(dt) == toISO(dt)

\* the instant an ISO string of a capture denotes
IsoInstant(iso) == iso.wall - iso.offset.value

\* variant: the shipped duration is added whatever is configured
ensureDurationShipped(start, end, defaultMinutes) ==
    IF end.defined THEN end.value ELSE plus(start, DEFAULTS.durationMinutes)

ensureDuration(start, end, defaultMinutes) ==
    IF end.defined THEN end.value ELSE plus(start, defaultMinutes)

\* variant: a due time equal to now is moved to the next day
defaultTaskDueEager(nowDt, dueHour, dueMinute) ==
    LET candidate == setTime(nowDt, dueHour, dueMinute)
    IN IF candidate.ts <= nowDt.ts THEN plus(candidate, MinutesPerDay) ELSE candidate

defaultTaskDue(nowDt, dueHour, dueMinute) ==
    LET candidate == setTime(nowDt, dueHour, dueMinute)
    IN IF candidate.ts < nowDt.ts THEN plus(candidate, MinutesPerDay) ELSE candidate

(***************************************************************************)
(* The recognizer (chrono.casual.parse).  What it finds in a text is an    *)
(* input: a list of matches, each giving its matched text and, for start   *)
(* and optional end, a day relative to the reference date, a time of day,  *)
(* whether hour and minute were written in the text, and an optional       *)
(* explicit UTC offset.  The recognizer reads the reference instant and    *)
(* builds dates in the host's zone.                                        *)
(***************************************************************************)
\* ParsedComponents.date(): the wall-clock fields read at the explicit
\* offset if there is one, else in the host's zone
ComponentDate(wall, timezoneOffset, hostZone) ==
    IF timezoneOffset.defined THEN wall - timezoneOffset.value
    ELSE wall - ZoneOffset(hostZone)

ParsedComponents(m, refDay, hostZone) ==
    LET wall == (refDay + m.day) * MinutesPerDay + m.minuteOfDay
    IN [ wall |-> wall,
         date |-> ComponentDate(wall, m.timezoneOffset, hostZone),
         timezoneOffset |-> m.timezoneOffset,
         certainHour |-> m.certainTime,
         certainMinute |-> m.certainTime ]

parseWithChrono(matches, reference, hostZone) ==
    LET refDay == (reference.ts + ZoneOffset(hostZone)) \div MinutesPerDay
    IN [ i \in 1..Len(matches) |->
           [ text |-> matches[i].text,
             start |-> Some(ParsedComponents(matches[i].start, refDay, hostZone)),
             end |-> IF matches[i].end.defined
                     THEN Some(ParsedComponents(matches[i].end.value, refDay, hostZone))
                     ELSE Undefined ] ]

\* DateTime.fromJSDate(jsDate) shows the instant in the host's zone
toDateTime(value, tz, fallback, hostZone) ==
    IF ~value.defined THEN fallback
    ELSE LET timezoneOffset == value.value.timezoneOffset
             jsDate == value.value.date
         IN IF timezoneOffset.defined
            THEN setZone(plus(DateTime(jsDate, "utc"), 0 - timezoneOffset.value), tz)
            ELSE setZone(DateTime(jsDate, hostZone), tz)

isAllDay(components) ==
    IF ~components.defined THEN FALSE
    ELSE ~components.value.certainHour /\ ~components.value.certainMinute

(***************************************************************************)
(* Signal extractors.                                                      *)
(***************************************************************************)
\* index after the longest run of characters of class that starts at from
RECURSIVE RunEnd(_, _, _)
RunEnd(s, from, class) ==
    IF from <= Len(s) /\ SubSeq(s, from, from) \in class
    THEN RunEnd(s, from + 1, class)
    ELSE from

\* index after the longest such run of at most max characters
RunEndMax(s, from, class, max) == Min(RunEnd(s, from, class), from + max)

\* s[i..] starts with k, letters compared case-insensitively
StartsWithI(s, i, k) ==
    /\ i >= 1
    /\ i + Len(k) - 1 <= Len(s)
    /\ \A j \in 1..Len(k) : LowerChar(SubSeq(s, i + j - 1, i + j - 1)) = SubSeq(k, j, j)

EmailLocalChars == AlphaNum \cup {"_", ".", "+", "-"}
EmailDomainChars == AlphaNum \cup {"-"}
EmailTailChars == AlphaNum \cup {"-", "."}

\* EMAIL_REGEX tried at position i: the index after the match, or 0.
\* '@' is outside the first class and '.' outside the second, so each of
\* the first two runs can only be the longest one.
EmailMatchEnd(s, i) ==
    LET e1 == RunEnd(s, i, EmailLocalChars)
        e2 == RunEnd(s, e1 + 1, EmailDomainChars)
        e3 == RunEnd(s, e2 + 1, EmailTailChars)
    IN IF /\ e1 > i /\ CharAt(s, e1) = "@"
          /\ e2 > e1 + 1 /\ CharAt(s, e2) = "."
          /\ e3 > e2 + 1
       THEN e3 ELSE 0

\* the successive matches of regex.exec(text) from lastIndex = from
RECURSIVE EmailMatches(_, _)
EmailMatches(s, from) ==
    LET starts == {i \in from..Len(s) : EmailMatchEnd(s, i) # 0}
    IN IF starts = {} THEN <<>>
       ELSE LET i == CHOOSE j \in starts : \A k \in starts : j <= k
                e == EmailMatchEnd(s, i)
            IN <<SubSeq(s, i, e - 1)>> \o EmailMatches(s, e)

\* Set.add in insertion order
RECURSIVE AddAll(_, _)
AddAll(acc, items) ==
    IF items = <<>> THEN acc
    ELSE AddAll(IF \E i \in 1..Len(acc) : acc[i] = Head(items)
                THEN acc ELSE Append(acc, Head(items)),
                Tail(items))

\* variant: the addresses are collected as they are written
extractAttendeesAsWritten(text) ==
    LET found == EmailMatches(text, 1)
        emails == AddAll(<<>>, found)
    IN [i \in 1..Len(emails) |-> [email |-> emails[i]]]

extractAttendees(text) ==
    LET found == EmailMatches(text, 1)
        lowered == [i \in 1..Len(found) |-> toLowerCase(found[i])]
        emails == AddAll(<<>>, lowered)
    IN [i \in 1..Len(emails) |-> [email |-> emails[i]]]

\* the leftmost of the positions where a pattern matches, or 0
FirstMatch(starts) ==
    IF starts = {} THEN 0 ELSE CHOOSE j \in starts : \A k \in starts : j <= k

\* /room\s?\d{1,4}/i
RoomEnd(s, i) ==
    LET p == i + 4
        withWs == IF CharAt(s, p) \in WhiteSpace THEN RunEndMax(s, p + 1, Digits, 4) ELSE 0
        noWs == RunEndMax(s, p, Digits, 4)
    IN IF ~StartsWithI(s, i, "room") THEN 0
       ELSE IF CharAt(s, p) \in WhiteSpace /\ withWs > p + 1 THEN withWs
       ELSE IF noWs > p THEN noWs
       ELSE 0

\* /hall\s?[a-z]?\d*/i
HallEnd(s, i) ==
    LET p == i + 4
        p1 == IF CharAt(s, p) \in WhiteSpace THEN p + 1 ELSE p
        p2 == IF CharAt(s, p1) \in (LowerLetters \cup UpperLetters) THEN p1 + 1 ELSE p1
    IN IF ~StartsWithI(s, i, "hall") THEN 0 ELSE RunEnd(s, p2, Digits)

\* index after the longest run of non-whitespace characters from from
RECURSIVE NonSpaceEnd(_, _)
NonSpaceEnd(s, from) ==
    IF from <= Len(s) /\ SubSeq(s, from, from) \notin WhiteSpace
    THEN NonSpaceEnd(s, from + 1)
    ELSE from

\* https?:\/\/ at position i: the index after it, or 0
SchemeEnd(s, i) ==
    IF StartsWithI(s, i, "https://") THEN i + 8
    ELSE IF StartsWithI(s, i, "http://") THEN i + 7
    ELSE 0

\* https?:\/\/\S+ at position i: the index after it, or 0
UrlEnd(s, i) ==
    LET p == SchemeEnd(s, i)
    IN IF p # 0 /\ NonSpaceEnd(s, p) > p THEN NonSpaceEnd(s, p) ELSE 0

\* /(zoom|meet|teams)\s*link[:\-]?\s*(https?:\/\/\S+)/i : the start of
\* group 2 for the match tried at i, or 0
LinkUrlStart(s, i) ==
    LET words == {w \in {"zoom", "meet", "teams"} : StartsWithI(s, i, w)}
    IN IF words = {} THEN 0
       ELSE LET w == CHOOSE v \in words : TRUE
                p1 == RunEnd(s, i + Len(w), WhiteSpace)
                p2 == p1 + 4
                p3 == IF CharAt(s, p2) \in {":", "-"} THEN p2 + 1 ELSE p2
                p4 == RunEnd(s, p3, WhiteSpace)
            IN IF StartsWithI(s, p1, "link") /\ UrlEnd(s, p4) # 0 THEN p4 ELSE 0

LinkEnd(s, i) == IF LinkUrlStart(s, i) = 0 THEN 0 ELSE UrlEnd(s, LinkUrlStart(s, i))

ConferenceWords == {"zoom", "meet", "teams", "webex"}

\* /(https?:\/\/\S*(zoom|meet|teams|webex)\S*)/i : the positions where
\* group 2 can start for the match tried at i (the greedy \S* takes the last)
ConferenceStarts(s, i) ==
    LET p == SchemeEnd(s, i)
        e == NonSpaceEnd(s, p)
    IN IF p = 0 THEN {}
       ELSE {j \in p..(e - 1) : \E w \in ConferenceWords :
                 StartsWithI(s, j, w) /\ j + Len(w) <= e}

ConferenceEnd(s, i) ==
    IF ConferenceStarts(s, i) = {} THEN 0 ELSE NonSpaceEnd(s, SchemeEnd(s, i))

ConferenceWord(s, i) ==
    LET starts == ConferenceStarts(s, i)
        j == CHOOSE a \in starts : \A b \in starts : a >= b
        w == CHOOSE v \in ConferenceWords : StartsWithI(s, j, v)
    IN SubSeq(s, j, j + Len(w) - 1)

PlaceChars == AlphaNum \cup {" ", ",", ".", "-"}

\* /at\s+([A-Za-z0-9 ,.-]{3,})/i : the start of group 1 for the match tried
\* at i, or 0.  \s+ takes the longest run of whitespace and gives back
\* trailing spaces one at a time until three place characters follow.
PlaceStart(s, i) ==
    LET p == i + 2
        q == RunEnd(s, p, WhiteSpace)
        ok == {j \in (p + 1)..q :
                 /\ \A k \in j..(q - 1) : SubSeq(s, k, k) = " "
                 /\ RunEnd(s, j, PlaceChars) - j >= 3}
    IN IF ~StartsWithI(s, i, "at") \/ ok = {} THEN 0
       ELSE CHOOSE a \in ok : \A b \in ok : a >= b

PlaceEnd(s, i) == IF PlaceStart(s, i) = 0 THEN 0 ELSE RunEnd(s, PlaceStart(s, i), PlaceChars)

\* LOCATION_PATTERNS in order; of the first pattern that matches, group 2 if
\* it is non-empty, else group 1, else the whole match
extractLocation(text) ==
    LET room == FirstMatch({i \in 1..Len(text) : RoomEnd(text, i) # 0})
        hall == FirstMatch({i \in 1..Len(text) : HallEnd(text, i) # 0})
        link == FirstMatch({i \in 1..Len(text) : LinkEnd(text, i) # 0})
        conf == FirstMatch({i \in 1..Len(text) : ConferenceEnd(text, i) # 0})
        place == FirstMatch({i \in 1..Len(text) : PlaceEnd(text, i) # 0})
    IN IF room # 0 THEN Some(SubSeq(text, room, RoomEnd(text, room) - 1))
       ELSE IF hall # 0 THEN Some(SubSeq(text, hall, HallEnd(text, hall) - 1))
       ELSE IF link # 0
            THEN Some(SubSeq(text, LinkUrlStart(text, link), LinkEnd(text, link) - 1))
       ELSE IF conf # 0 THEN Some(ConferenceWord(text, conf))
       ELSE IF place # 0
            THEN Some(SubSeq(text, PlaceStart(text, place), PlaceEnd(text, place) - 1))
       ELSE Undefined

(***************************************************************************)
(* parseCapture.  payload is the ParsePayload, defaults the QuickAddDefaults;*)
(* the environment of a call is the host's clock and zone, what the        *)
(* recognizer finds in the text, and the next identifier uuid() returns    *)
(* (uuid() returns uuidSeed, uuidSeed + 1, ... : values never used before).*)
(* The result is the ParseResponse, or [threw |-> TRUE] for an exception.  *)
(***************************************************************************)
\* variant: the forced kind is consulted after the clock-time rule
chosenKindForcedLate(forcedKind, chronoCount, explicitTime, eventScore, taskScore) ==
    IF chronoCount > 0 /\ (explicitTime \/ eventScore > taskScore) THEN "event"
    ELSE IF forcedKind.defined THEN forcedKind.value
    ELSE IF chronoCount = 0 /\ taskScore >= eventScore THEN "task"
    ELSE IF taskScore > eventScore THEN "task"
    ELSE IF chronoCount > 0 THEN "event" ELSE "task"

\* variant: the second rule looks at the scores only
chosenKindNoClockTime(forcedKind, chronoCount, explicitTime, eventScore, taskScore) ==
    IF forcedKind.defined THEN forcedKind.value
    ELSE IF chronoCount > 0 /\ eventScore > taskScore THEN "event"
    ELSE IF chronoCount = 0 /\ taskScore >= eventScore THEN "task"
    ELSE IF taskScore > eventScore THEN "task"
    ELSE IF chronoCount > 0 THEN "event" ELSE "task"

\* variant: the last rule gives an event without looking at the candidates
chosenKindEventLast(forcedKind, chronoCount, explicitTime, eventScore, taskScore) ==
    IF forcedKind.defined THEN forcedKind.value
    ELSE IF chronoCount > 0 /\ (explicitTime \/ eventScore > taskScore) THEN "event"
    ELSE IF chronoCount = 0 /\ taskScore >= eventScore THEN "task"
    ELSE IF taskScore > eventScore THEN "task"
    ELSE "event"

chosenKindOf(forcedKind, chronoCount, explicitTime, eventScore, taskScore) ==
    IF forcedKind.defined THEN forcedKind.value
    ELSE IF chronoCount > 0 /\ (explicitTime \/ eventScore > taskScore) THEN "event"
    ELSE IF chronoCount = 0 /\ taskScore >= eventScore THEN "task"
    ELSE IF taskScore > eventScore THEN "task"
    ELSE IF chronoCount > 0 THEN "event" ELSE "task"

\* the candidates the alternatives loop visits: i = 1 and 2 (0-based) while
\* i < min(length, 3), skipping a candidate without start
\* variant: the loop runs over every candidate after the first
AlternativeIndicesUncapped(chronoResults) ==
    SelectSeq([i \in 1..Len(chronoResults) |-> i],
              LAMBDA i : i >= 2 /\ chronoResults[i].start.defined)

AlternativeIndices(chronoResults) ==
    SelectSeq(<<2, 3>>, LAMBDA i : i <= Min(Len(chronoResults), 3)
                                   /\ chronoResults[i].start.defined)

\* variant: the alternative keeps the identifier of the primary
eventAlternativeSameId(capture, id, altStart, altEnd) ==
    [capture EXCEPT !.start = altStart, !.end = altEnd]

\* { ...capture, id: uuid(), start: toIso(altStart), end: toIso(altEnd) }
eventAlternative(capture, id, altStart, altEnd) ==
    [capture EXCEPT !.id = id, !.start = altStart, !.end = altEnd]

\* { ...capture, id: uuid(), due: toIso(altDue) }
taskAlternative(capture, id, altDue) ==
    [capture EXCEPT !.id = id, !.due = altDue]

\* variant: the downgrade is not reported
taskWarningsSilent(warnings, chosenKind, chronoCount) == warnings

\* the warning of a desired event captured as a task
taskWarnings(warnings, chosenKind, chronoCount) ==
    IF chosenKind = "event" /\ chronoCount = 0
    THEN Append(warnings, "Could not detect a date/time. Captured as task.")
    ELSE warnings

OrUndefined(list) == IF Len(list) > 0 THEN Some(list) ELSE Undefined

\* c holds the locals of parseCapture at the branch
parseEvent(c, uuidSeed) ==
    LET primary == c.chronoResults[1]
        start == toDateTime(primary.start, c.tz, c.now, c.hostZone)
        eventEnd == IF primary.end.defined
                    THEN toDateTime(primary.end, c.tz, start, c.hostZone)
                    ELSE ensureDuration(start, Undefined, c.defaults.durationMinutes)
        allDay == isAllDay(primary.start)
        capture == [ id |-> uuidSeed,
                     kind |-> "event",
                     title |-> inferTitle(c.text),
                     start |-> toIso(start).value,
                     end |-> toIso(eventEnd).value,
                     allDay |-> allDay,
                     location |-> c.location,
                     attendees |-> c.attendees,
                     notes |-> c.notes,
                     source |-> [url |-> c.payload.url, title |-> c.payload.title],
                     tz |-> c.tz,
                     confidence |-> computeConfidence(c.text, "event", TRUE, c.hasDate),
                     reminderMinutes |-> c.defaults.reminderMinutes ]
        indices == AlternativeIndices(c.chronoResults)
        alternative(k) ==
            LET candidate == c.chronoResults[indices[k]]
                altStart == toDateTime(candidate.start, c.tz, start, c.hostZone)
                altEnd == IF candidate.end.defined
                          THEN toDateTime(candidate.end, c.tz, altStart, c.hostZone)
                          ELSE ensureDuration(altStart, Undefined, c.defaults.durationMinutes)
            IN eventAlternative(capture, uuidSeed + k,
                                toIso(altStart).value, toIso(altEnd).value)
        alternatives == [k \in 1..Len(indices) |-> alternative(k)]
    IN IF ~toIso(start).defined \/ ~toIso(eventEnd).defined THEN [threw |-> TRUE]
       ELSE [ threw |-> FALSE,
              capture |-> capture,
              alternatives |-> OrUndefined(alternatives),
              warnings |-> OrUndefined(c.warnings),
              diagnostics |-> [chronoMatches |-> Len(c.chronoResults)] ]

parseTask(c, uuidSeed) ==
    LET withStart == SelectSeq(c.chronoResults, LAMBDA r : r.start.defined)
        dueDateResult == IF Len(withStart) > 0 THEN Some(withStart[1]) ELSE Undefined
        dueDate == IF dueDateResult.defined
                   THEN toDateTime(dueDateResult.value.start, c.tz, c.now, c.hostZone)
                   ELSE defaultTaskDue(c.now, c.defaults.taskDueHour, c.defaults.taskDueMinute)
        recurrence == IF dueDateResult.defined
                         /\ includes(toLowerCase(dueDateResult.value.text), "every")
                      THEN Some("RRULE:FREQ=WEEKLY") ELSE Undefined
        capture == [ id |-> uuidSeed,
                     kind |-> "task",
                     title |-> inferTitle(c.text),
                     due |-> toIso(dueDate).value,
                     notes |-> c.notes,
                     location |-> c.location,
                     attendees |-> c.attendees,
                     source |-> [url |-> c.payload.url, title |-> c.payload.title],
                     tz |-> c.tz,
                     confidence |-> computeConfidence(c.text, "task", FALSE, c.hasDate),
                     reminderMinutes |-> c.defaults.reminderMinutes,
                     priority |-> detectPriority(c.text),
                     recurrence |-> recurrence ]
        warnings == taskWarnings(c.warnings, c.chosenKind, Len(c.chronoResults))
        indices == AlternativeIndices(c.chronoResults)
        alternative(k) ==
            LET candidate == c.chronoResults[indices[k]]
                altDue == toDateTime(candidate.start, c.tz, dueDate, c.hostZone)
            IN taskAlternative(capture, uuidSeed + k, toIso(altDue).value)
        alternatives == [k \in 1..Len(indices) |-> alternative(k)]
    IN IF ~toIso(dueDate).defined THEN [threw |-> TRUE]
       ELSE [ threw |-> FALSE,
              capture |-> capture,
              alternatives |-> OrUndefined(alternatives),
              warnings |-> OrUndefined(warnings),
              diagnostics |-> [chronoMatches |-> Len(c.chronoResults),
                               chosenKind |-> c.chosenKind] ]

parseCapture(payload, defaults, wallClock, hostZone, matches, uuidSeed) ==
    LET text == trim(payload.text)
        tz == IF payload.tz # "" THEN payload.tz ELSE defaults.tz
        nowDt == now(tz, payload.now, wallClock)
        chronoResults == parseWithChrono(matches, nowDt, hostZone)
        eventScore == scoreText(text, EVENT_KEYWORDS)
        taskScore == scoreText(text, TASK_KEYWORDS)
        chosenKind == chosenKindOf(payload.forcedKind, Len(chronoResults),
                                   hasExplicitTime(text), eventScore, taskScore)
        c == [ text |-> text,
               payload |-> payload,
               defaults |-> defaults,
               tz |-> tz,
               now |-> nowDt,
               hostZone |-> hostZone,
               notes |-> Some(buildNotes(payload.title, payload.url, text)),
               attendees |-> extractAttendees(text),
               location |-> extractLocation(text),
               chronoResults |-> chronoResults,
               hasDate |-> Len(chronoResults) > 0 /\ chronoResults[1].start.defined,
               chosenKind |-> chosenKind,
               warnings |-> IF Len(chronoResults) > 1
                            THEN <<"Multiple date interpretations detected">>
                            ELSE <<>> ]
    IN IF chosenKind = "event" /\ Len(chronoResults) > 0
       THEN parseEvent(c, uuidSeed)
       ELSE parseTask(c, uuidSeed)

\* the number of identifiers a call has drawn from uuid()
UuidsDrawn(result) ==
    IF result.threw \/ ~result.alternatives.defined THEN 1
    ELSE 1 + Len(result.alternatives.value)

(***************************************************************************)
(* Inputs.                                                                 *)
(***************************************************************************)
\* phrases without a date or time
Phrases ==
    { "Team meeting",
      "Submit project report",
      "Review PR",
      "Buy groceries",
      " URGENT: send draft to Bob@Example.com, bob@example.com in room 5",
      "meeting review submit",
      "Call room 12",
      "Buy 2 tickets",
      "Submit 2 reports" }

ForcedKinds == {Undefined, Some("event"), Some("task")}

Zones == {"UTC", "Asia/Kolkata"}
\* timezone identifiers the timezone database does not resolve
UnresolvableZones == {"Mars/Olympus", ""}
HostZones == {"UTC", "Asia/Tokyo"}

\* the host's clock starts on day 10 at 09:00 UTC and advances in steps
ClockStart == 10 * MinutesPerDay + 9 * 60
ClockStep == 10 * 60

\* no override, or "day 10, 09:00" written without an offset
NowOverrides == {Undefined, Some([wall |-> 10 * MinutesPerDay + 9 * 60, offset |-> Undefined])}

\* settings.defaults as the options page stores them: the shipped defaults,
\* other values, and a duration typed below zero (the page stores
\* Number(event.target.value) as it is)
DefaultsChoices ==
    { DEFAULTS,
      [DEFAULTS EXCEPT !.durationMinutes = 30, !.reminderMinutes = 5,
                       !.taskDueHour = 9, !.taskDueMinute = 0],
      [DEFAULTS EXCEPT !.durationMinutes = 0 - 30] }

Component(day, minuteOfDay, certainTime, timezoneOffset) ==
    [ day |-> day, minuteOfDay |-> minuteOfDay, certainTime |-> certainTime,
      timezoneOffset |-> timezoneOffset ]

\* the date phrases a text can hold and what the recognizer makes of each:
\* a date with a time, a date alone (the recognizer implies 12:00), a time
\* range with an explicit offset, a recurring date, a range of dates
DatePhrases ==
    << [ text |-> "tomorrow at 2pm",
         start |-> Component(1, 14 * 60, TRUE, Undefined), end |-> Undefined ],
       [ text |-> "Friday",
         start |-> Component(4, 12 * 60, FALSE, Undefined), end |-> Undefined ],
       [ text |-> "3-5pm IST",
         start |-> Component(0, 15 * 60, TRUE, Some(330)),
         end |-> Some(Component(0, 17 * 60, TRUE, Some(330))) ],
       [ text |-> "Every Monday",
         start |-> Component(7, 12 * 60, FALSE, Undefined), end |-> Undefined ],
       [ text |-> "June 3-5",
         start |-> Component(20, 12 * 60, FALSE, Undefined),
         end |-> Some(Component(22, 12 * 60, FALSE, Undefined)) ] >>

RECURSIVE Ascending(_)
Ascending(S) ==
    IF S = {} THEN <<>>
    ELSE LET m == CHOOSE a \in S : \A b \in S : a <= b
         IN <<m>> \o Ascending(S \ {m})

\* the choices of at most n date phrases
PhraseChoices(n) == {S \in SUBSET (1..Len(DatePhrases)) : Cardinality(S) <= n}

\* the date phrases S in the order of DatePhrases: what the recognizer
\* finds in a text made of a phrase followed by them
MatchesOf(S) == [k \in 1..Cardinality(S) |-> DatePhrases[Ascending(S)[k]]]

RECURSIVE Join(_)
Join(list) == IF list = <<>> THEN "" ELSE " " \o Head(list).text \o Join(Tail(list))

TextOf(phrase, S) == phrase \o Join(MatchesOf(S))

(***************************************************************************)
(* State: one parse request, its environment, and the results of the calls *)
(* of parseCapture made on it so far.                                      *)
(***************************************************************************)
VARIABLES
    payload,    \* the ParsePayload
    defaults,   \* the QuickAddDefaults passed with it
    matches,    \* what the recognizer finds in payload.text, in order
    hostZone,   \* the zone of the host
    clock,      \* the host's clock
    nextUuid,   \* the next identifier uuid() returns
    results,    \* the results of the calls made so far
    calledAt,   \* history: the clock reading at each call
    syncSettings,   \* browser.storage.sync: the value under SETTINGS_KEY
    localAiKey,     \* browser.storage.local: the value under 'quickadd:ai-key'
    history,        \* browser.storage.local: the value under HISTORY_KEY
    recorded,       \* history: the ids of the items appended since the last clear
    providerCalls,  \* history: the calls of the integrations, in order
    running,        \* the handlers of the worker: the locals of each and where it is
    fetch,          \* a call of googleFetch: where it is and what it has done
    message,        \* a runtime message
    verdicts,       \* what the type guards applied so far say of it
    state,          \* the content script: its QuickAddState
    selectionRange, \* the content script: the range of the selection, or null
    pending,        \* the requests of the content script not answered yet
    settled,        \* history: the requests answered so far, with the answer
    edits           \* history: the input events of the edit section so far

workerVars == <<syncSettings, localAiKey, history, recorded, providerCalls, running>>

pageVars == <<state, selectionRange, pending, settled, edits>>

asyncVars == <<fetch, message, verdicts, pageVars>>

vars == <<payload, defaults, matches, hostZone, clock, nextUuid, results, calledAt,
          workerVars, asyncVars>>

Payload(text, tz, forcedKind, override) ==
    [ text |-> text, url |-> "https://ex.io/p", title |-> "Page",
      tz |-> tz, forcedKind |-> forcedKind, now |-> override ]

\* the storage of a fresh installation, and no request handled yet
WorkerIdle ==
    /\ syncSettings = Undefined
    /\ localAiKey = Undefined
    /\ history = <<>>
    /\ recorded = <<>>
    /\ providerCalls = <<>>
    /\ running = <<>>

\* the QuickAddState of a page just loaded
InitialState ==
    [ mode |-> "smart", selectionText |-> "", forcedKind |-> Undefined,
      providerHint |-> Undefined, parseResult |-> Undefined,
      captureDraft |-> Undefined, alternatives |-> Undefined,
      warnings |-> Undefined, diagnostics |-> Undefined,
      isCardVisible |-> FALSE, isParsing |-> FALSE, isSaving |-> FALSE,
      isEditing |-> FALSE ]

\* no request in flight
Quiet ==
    /\ fetch = [ pc |-> "idle", retry |-> TRUE, token |-> Undefined, acquired |-> <<>>,
                 requests |-> <<>>, invalidated |-> <<>>, result |-> Undefined ]
    /\ message = Undefined
    /\ verdicts = [request |-> Undefined, response |-> Undefined, content |-> Undefined]
    /\ state = InitialState
    /\ selectionRange = Undefined
    /\ pending = <<>>
    /\ settled = <<>>
    /\ edits = 0

\* every phrase and forced kind, alone and with one date phrase
InitTexts ==
    \E phrase \in Phrases, S \in PhraseChoices(1), forcedKind \in ForcedKinds,
       override \in NowOverrides :
        /\ payload = Payload(TextOf(phrase, S), "UTC", forcedKind, override)
        /\ matches = MatchesOf(S)
        /\ defaults = DEFAULTS
        /\ hostZone = "UTC"

\* every choice of date phrases, zone, host zone and defaults, on one phrase
InitTimes ==
    \E S \in PhraseChoices(MaxCandidates), tz \in Zones, forcedKind \in ForcedKinds,
       d \in DefaultsChoices :
        /\ payload = Payload(TextOf("Review PR", S), tz, forcedKind, Undefined)
        /\ matches = MatchesOf(S)
        /\ defaults = [d EXCEPT !.tz = tz]
        /\ hostZone \in HostZones

\* requests whose timezone identifier cannot be resolved
InitZones ==
    \E phrase \in {"Team meeting", "Buy groceries"}, S \in PhraseChoices(1),
       tz \in UnresolvableZones, forcedKind \in ForcedKinds, override \in NowOverrides :
        /\ payload = Payload(TextOf(phrase, S), tz, forcedKind, override)
        /\ matches = MatchesOf(S)
        /\ defaults = [DEFAULTS EXCEPT !.tz = tz]
        /\ hostZone = "UTC"

Init ==
    /\ InitTexts \/ InitTimes \/ InitZones
    /\ clock = ClockStart
    /\ nextUuid = 1
    /\ results = <<>>
    /\ calledAt = <<>>
    /\ WorkerIdle
    /\ Quiet

\* a call parseCapture(payload, { ...settings.defaults, tz: payload.tz })
Parse ==
    /\ Len(results) < MaxRuns
    /\ LET result == parseCapture(payload, defaults, clock, hostZone, matches, nextUuid)
       IN /\ results' = Append(results, result)
          /\ nextUuid' = nextUuid + UuidsDrawn(result)
    /\ calledAt' = Append(calledAt, clock)
    /\ UNCHANGED <<payload, defaults, matches, hostZone, clock, workerVars, asyncVars>>

\* time passes on the host
Tick ==
    /\ clock < ClockStart + MaxTicks * ClockStep
    /\ clock' = clock + ClockStep
    /\ UNCHANGED <<payload, defaults, matches, hostZone, nextUuid, results, calledAt,
                   workerVars, asyncVars>>

Next == Parse \/ Tick

Spec == Init /\ [][Next]_vars

(***************************************************************************)
(* The background worker (background/index.ts): its storage and handlers.  *)
(* A handler is applied to the stored values and returns the values it     *)
(* stores and its answer.  An instant read from the host's clock (new      *)
(* Date(), DateTime.now()) is the clock reading at.                        *)
(***************************************************************************)
HISTORY_LIMIT == 200

createDefaultSettings(tz, at) ==
    [ defaults |-> [DEFAULTS EXCEPT !.tz = tz],
      provider |-> "ics",
      voiceEnabled |-> TRUE,
      telemetryEnabled |-> FALSE,
      aiParser |-> [enabled |-> FALSE, provider |-> "gemini", apiKey |-> Undefined],
      lastUpdated |-> at ]

\* { ...settings, aiParser: { ...settings.aiParser, apiKey } }
withApiKey(settings, apiKey) == [settings EXCEPT !.aiParser.apiKey = apiKey]

\* getSettings(tz) on the stored settings sync and the stored key aiKey:
\* the settings it leaves in sync storage and the settings it returns
getSettings(sync, aiKey, tz, at) ==
    IF ~sync.defined
    THEN LET created == withApiKey(createDefaultSettings(tz, at), aiKey)
         IN [ sync |-> Some(withApiKey(created, Undefined)), result |-> created ]
    ELSE LET stored == sync.value
             updated == [stored EXCEPT !.defaults.tz = tz]
         IN [ sync |-> IF stored.defaults.tz # tz
                       THEN Some(withApiKey(updated, Undefined)) ELSE sync,
              result |-> withApiKey(updated, aiKey) ]

\* variant: the settings are put in sync storage as they were passed
saveSettingsWhole(settings, at) ==
    LET aiKey == settings.aiParser.apiKey
        payloadForSync == [settings EXCEPT !.lastUpdated = at]
    IN [ sync |-> Some(payloadForSync),
         local |-> IF aiKey.defined /\ aiKey.value # "" THEN aiKey ELSE Undefined,
         result |-> withApiKey(payloadForSync, aiKey) ]

\* saveSettings(settings): what it leaves in sync storage and under
\* 'quickadd:ai-key' in local storage (an empty key is falsy and removes
\* the entry), and the settings it returns
saveSettings(settings, at) ==
    LET aiKey == settings.aiParser.apiKey
        payloadForSync == [withApiKey(settings, Undefined) EXCEPT !.lastUpdated = at]
    IN [ sync |-> Some(payloadForSync),
         local |-> IF aiKey.defined /\ aiKey.value # "" THEN aiKey ELSE Undefined,
         result |-> withApiKey(payloadForSync, aiKey) ]

\* writeHistory(history) stores history.slice(-HISTORY_LIMIT)
writeHistory(items) == SubSeq(items, Max(1, Len(items) - HISTORY_LIMIT + 1), Len(items))

\* does item match capture in isDuplicate; lowerTitle is
\* capture.title.toLowerCase()
Matches(item, capture, lowerTitle) ==
    /\ item.kind = capture.kind
    /\ toLowerCase(item.title) = lowerTitle
    /\ IF capture.kind = "event"
       THEN item.start = Some(capture.start) /\ item.sourceUrl = capture.source.url
       ELSE item.due = Some(capture.due) /\ item.sourceUrl = capture.source.url

\* variant: titles are compared as they are written
isDuplicateExactTitle(capture, items) ==
    LET lowerTitle == toLowerCase(capture.title)
        found == SelectSeq(items, LAMBDA item :
                     Matches(item, capture, lowerTitle) /\ item.title = capture.title)
    IN IF Len(found) > 0 THEN Some(found[1]) ELSE Undefined

\* history.find(...): the first matching item
isDuplicate(capture, items) ==
    LET lowerTitle == toLowerCase(capture.title)
        found == SelectSeq(items, LAMBDA item : Matches(item, capture, lowerTitle))
    IN IF Len(found) > 0 THEN Some(found[1]) ELSE Undefined

\* a CreateResponse with its optional fields absent
CreateResponse(ok, provider) ==
    [ ok |-> ok, provider |-> provider, id |-> Undefined, url |-> Undefined,
      warning |-> Undefined, deduped |-> Undefined, error |-> Undefined ]

\* the answer of a handler whose promise rejects
Rejected == [type |-> "rejected"]

\* the operations a Google integration awaits in turn: when the cached
\* token is taken and the request is answered, when the first answer is 401
\* and the request is sent again with another token, and when the fetch
\* rejects
Answered == <<"identity.getAuthToken", "fetch", "response.json">>
AnsweredAgain ==
    << "identity.getAuthToken", "fetch", "identity.removeCachedAuthToken",
       "identity.getAuthToken", "fetch", "response.json" >>
FetchRejected == <<"identity.getAuthToken", "fetch">>

\* what the service of an integration does with an item: it accepts it, or
\* the call fails with an error that has a message (the message of the
\* error object in the answer, the status text, the message of an error
\* thrown on the way) or has none; awaited are the operations a Google
\* integration awaits on the way
Accepts == [ok |-> TRUE, message |-> Undefined, awaited |-> Answered]
Fails(text, awaited) == [ok |-> FALSE, message |-> text, awaited |-> awaited]

\* the integrations: error?.message ?? the text of the integration
createGoogleCalendarEvent(capture, outcome) ==
    IF outcome.ok
    THEN [CreateResponse(TRUE, "google-calendar")
            EXCEPT !.id = Some("remote-id"), !.url = Some("https://remote/link")]
    ELSE [CreateResponse(FALSE, "google-calendar")
            EXCEPT !.error = IF outcome.message.defined THEN outcome.message
                             ELSE Some("Failed to create Google Calendar event.")]

createGoogleTask(capture, outcome) ==
    IF outcome.ok
    THEN [CreateResponse(TRUE, "google-tasks")
            EXCEPT !.id = Some("remote-id"), !.url = Some("https://remote/link")]
    ELSE [CreateResponse(FALSE, "google-tasks")
            EXCEPT !.error = IF outcome.message.defined THEN outcome.message
                             ELSE Some("Failed to create Google Task.")]

\* browser.downloads.download gives a download id, or rejects; the text of
\* the file is not modelled
createIcsDownload(capture, outcome) ==
    IF outcome.ok
    THEN Some([CreateResponse(TRUE, "ics")
                 EXCEPT !.id = Some("1"), !.url = Some("data:text/calendar"),
                        !.warning = Some("Downloaded ICS file")])
    ELSE Undefined

\* variant: the requested provider is used whatever the capture kind
routeProviderAsRequested(requestedProvider, kind) ==
    [ provider |-> requestedProvider, note |-> Undefined ]

\* the provider handleCreate settles on for a capture kind, with its note
routeProvider(requestedProvider, kind) ==
    IF kind = "event" /\ requestedProvider \in {"google-tasks", "microsoft-todo"}
    THEN [ provider |-> "google-calendar",
           note |-> Some("Switched to Google Calendar for event capture.") ]
    ELSE IF kind = "task" /\ requestedProvider \in {"google-calendar", "microsoft-calendar"}
    THEN [ provider |-> "google-tasks",
           note |-> Some("Switched to Google Tasks for task capture.") ]
    ELSE [ provider |-> requestedProvider, note |-> Undefined ]

\* the switch over the provider: the result (Undefined when the download
\* rejects), the integrations called and the operations awaited in them
callProvider(provider, capture, outcome) ==
    LET called(name) == <<[integration |-> name, capture |-> capture.id, kind |-> capture.kind]>>
    IN CASE provider = "google-calendar" ->
              IF capture.kind = "event"
              THEN [ result |-> Some(createGoogleCalendarEvent(capture, outcome)),
                     calls |-> called("createGoogleCalendarEvent"),
                     awaits |-> outcome.awaited ]
              ELSE [ result |-> Some([CreateResponse(FALSE, provider) EXCEPT
                                        !.error = Some("Please use a calendar-compatible item")]),
                     calls |-> <<>>, awaits |-> <<>> ]
         [] provider = "google-tasks" ->
              IF capture.kind = "task"
              THEN [ result |-> Some(createGoogleTask(capture, outcome)),
                     calls |-> called("createGoogleTask"),
                     awaits |-> outcome.awaited ]
              ELSE [ result |-> Some([CreateResponse(FALSE, provider) EXCEPT
                                        !.error = Some("Please use a task-compatible item")]),
                     calls |-> <<>>, awaits |-> <<>> ]
         [] provider = "ics" ->
              [ result |-> createIcsDownload(capture, outcome),
                calls |-> called("createIcsDownload"),
                awaits |-> <<"downloads.download">> ]
         [] OTHER ->
              [ result |-> Some([CreateResponse(FALSE, provider) EXCEPT
                                   !.error = Some("Provider integration not yet connected")]),
                calls |-> <<>>, awaits |-> <<>> ]

\* the note is put in the warning of an ok result, and of a failed result
\* that has no warning
withProviderNote(result, note) ==
    IF note.defined /\ (result.ok \/ ~result.warning.defined)
    THEN [result EXCEPT !.warning = note] ELSE result

historyItemOf(capture, provider, at) ==
    [ id |-> capture.id,
      kind |-> capture.kind,
      title |-> capture.title,
      start |-> IF capture.kind = "event" THEN Some(capture.start) ELSE Undefined,
      end |-> IF capture.kind = "event" THEN Some(capture.end) ELSE Undefined,
      due |-> IF capture.kind = "task" THEN Some(capture.due) ELSE Undefined,
      sourceUrl |-> capture.source.url,
      provider |-> provider,
      createdAt |-> at ]

(***************************************************************************)
(* The enrichment (shared/ai-parser.ts).  What the service does with a     *)
(* request is an input: the fetch rejects, the service answers with an     *)
(* HTTP error, or it answers with a text that holds a JSON object, a       *)
(* malformed JSON object, or no JSON at all.                               *)
(***************************************************************************)
AIParseResult(kind, title, start, end, due, confidence) ==
    [ kind |-> kind, title |-> title, start |-> start, end |-> end, due |-> due,
      location |-> Undefined, attendees |-> Undefined, notes |-> Undefined,
      priority |-> Undefined, confidence |-> confidence ]

\* JSON.parse('{}')
EmptyObject ==
    AIParseResult(Undefined, Undefined, Undefined, Undefined, Undefined, Undefined)

\* text.slice(0, 100)
slice100(text) == SubSeq(text, 1, Min(Len(text), 100))

\* parseWithGemini: the parsed object, or Undefined when it throws (a text
\* without a JSON object is handed to JSON.parse as it is)
parseWithGemini(text, ai) ==
    IF ai.outcome = "object" THEN Some(ai.result) ELSE Undefined

\* parseWithHuggingFace: a text without a JSON object counts as {}, and
\* kind, title and confidence are filled in when absent or falsy
parseWithHuggingFace(text, ai) ==
    IF ai.outcome \in {"object", "noJson"}
    THEN LET result == IF ai.outcome = "object" THEN ai.result ELSE EmptyObject
         IN Some([ EmptyObject EXCEPT
                     !.kind = IF result.kind.defined /\ result.kind.value # ""
                              THEN result.kind ELSE Some("task"),
                     !.title = IF result.title.defined /\ result.title.value # ""
                               THEN result.title ELSE Some(slice100(text)),
                     !.start = result.start,
                     !.end = result.end,
                     !.due = result.due,
                     !.location = result.location,
                     !.confidence = IF result.confidence.defined
                                       /\ result.confidence.value # 0
                                    THEN result.confidence ELSE Some(50) ])
    ELSE Undefined

\* the operations parseWithGemini and parseWithHuggingFace await: the
\* body is read only of an answer that is ok
enhanceAwaits(ai) ==
    IF ai.outcome \in {"rejects", "httpError"} THEN <<"fetch">>
    ELSE <<"fetch", "response.json">>

\* enhanceWithAI: the partial capture, or Undefined for null
enhanceWithAI(p, config, ai) ==
    IF ~config.enabled \/ config.provider \notin {"gemini", "huggingface"} THEN Undefined
    ELSE IF ~config.apiKey.defined \/ config.apiKey.value = "" THEN Undefined
    ELSE LET parsed == IF config.provider = "gemini"
                       THEN parseWithGemini(p.text, ai)
                       ELSE parseWithHuggingFace(p.text, ai)
             result == parsed.value
         IN IF ~parsed.defined THEN Undefined
            ELSE IF result.kind = Some("event")
            THEN Some([result EXCEPT !.due = Undefined, !.priority = Undefined])
            ELSE Some([result EXCEPT !.kind = Some("task"),
                                     !.start = Undefined, !.end = Undefined])

\* a ?? b on an optional a
Coalesce(a, b) == IF a.defined THEN a.value ELSE b

\* variant: the confidence of the enrichment is taken whenever it is present
mergeAIConfidence(orig, ai) ==
    LET common == [ orig EXCEPT
                      !.title = Coalesce(ai.title, orig.title),
                      !.location = IF ai.location.defined THEN ai.location
                                   ELSE orig.location,
                      !.attendees = Coalesce(ai.attendees, orig.attendees),
                      !.notes = IF ai.notes.defined THEN ai.notes ELSE orig.notes,
                      !.confidence = Coalesce(ai.confidence, orig.confidence) ]
    IN IF orig.kind = "event"
       THEN [ common EXCEPT !.start = Coalesce(ai.start, orig.start),
                            !.end = Coalesce(ai.end, orig.end) ]
       ELSE [ common EXCEPT !.due = Coalesce(ai.due, orig.due),
                            !.priority = IF ai.priority.defined THEN ai.priority
                                         ELSE orig.priority ]

\* the merge of handleParse: fields of the enrichment override when present
mergeAI(orig, ai) ==
    LET common == [ orig EXCEPT
                      !.title = Coalesce(ai.title, orig.title),
                      !.location = IF ai.location.defined THEN ai.location
                                   ELSE orig.location,
                      !.attendees = Coalesce(ai.attendees, orig.attendees),
                      !.notes = IF ai.notes.defined THEN ai.notes ELSE orig.notes,
                      !.confidence = Max(orig.confidence, Coalesce(ai.confidence, 0)) ]
    IN IF orig.kind = "event"
       THEN [ common EXCEPT !.start = Coalesce(ai.start, orig.start),
                            !.end = Coalesce(ai.end, orig.end) ]
       ELSE [ common EXCEPT !.due = Coalesce(ai.due, orig.due),
                            !.priority = IF ai.priority.defined THEN ai.priority
                                         ELSE orig.priority ]

(***************************************************************************)
(* The worker's requests and their environment.                            *)
(***************************************************************************)
Iso(day, minuteOfDay) ==
    [wall |-> day * MinutesPerDay + minuteOfDay, offset |-> Some(0)]

\* a selection longer than the 64 characters inferTitle keeps
LongText == "Please remember to buy groceries and pick up the dry cleaning on the way home"

ParseRequests ==
    { [ payload |-> Payload(TextOf("Team meeting", {1}), "UTC", Undefined, Undefined),
        matches |-> MatchesOf({1}) ],
      [ payload |-> Payload(LongText, "Asia/Kolkata", Undefined, Undefined),
        matches |-> <<>> ] }

\* what the enrichment service does with a request
AiReplies ==
    { [outcome |-> o, result |-> EmptyObject] :
        o \in {"rejects", "httpError", "invalidJson", "noJson", "object"} }
    \cup
    { [ outcome |-> "object", result |-> r ] :
        r \in { AIParseResult(Some("event"), Some("Weekly sync"), Some(Iso(12, 600)),
                              Some(Iso(12, 660)), Undefined, Some(95)),
                AIParseResult(Some("task"), Some("Get groceries"), Undefined,
                              Undefined, Some(Iso(11, 1080)), Some(20)),
                [ AIParseResult(Some("event"), Undefined, Some(Iso(12, 600)),
                                Undefined, Undefined, Undefined)
                    EXCEPT !.location = Some("Room 4"),
                           !.attendees = Some(<<"sam@ex.io">>),
                           !.notes = Some("Bring slides") ],
                AIParseResult(Some("event"), Undefined, Undefined,
                              Some(Iso(10, 600)), Undefined, Some(60)),
                [ AIParseResult(Some("task"), Some(""), Undefined,
                                Undefined, Undefined, Some(100))
                    EXCEPT !.priority = Some("high") ] } }

AIParserConfig(enabled, provider, apiKey) ==
    [enabled |-> enabled, provider |-> provider, apiKey |-> apiKey]

\* the payloads of 'quickadd:set-ai-config'
AiConfigs ==
    { AIParserConfig(TRUE, "gemini", Some("key-1")),
      AIParserConfig(TRUE, "huggingface", Some("key-2")),
      AIParserConfig(TRUE, "local", Some("key-1")),
      AIParserConfig(TRUE, "gemini", Undefined),
      AIParserConfig(TRUE, "gemini", Some("")),
      AIParserConfig(FALSE, "gemini", Some("key-1")) }

\* the payloads of 'quickadd:save-settings': the settings the options page
\* holds, with each enrichment configuration and another default provider
SettingsChoices ==
    { [createDefaultSettings("UTC", ClockStart) EXCEPT !.aiParser = cfg] : cfg \in AiConfigs }
    \cup { [createDefaultSettings("UTC", ClockStart) EXCEPT !.provider = "google-tasks"] }

\* captures as a parse returns them: an event, the same event under
\* another identifier with its title in lower case, the same event found
\* on another page, and a task
EventCapture ==
    parseCapture(Payload(TextOf("Team meeting", {1}), "UTC", Undefined, Undefined),
                 DEFAULTS, ClockStart, "UTC", MatchesOf({1}), 101).capture

TaskCapture ==
    parseCapture(Payload("Buy groceries", "UTC", Undefined, Undefined),
                 DEFAULTS, ClockStart, "UTC", <<>>, 201).capture

CreateCaptures(event, task) ==
    { event,
      [event EXCEPT !.id = 102, !.title = toLowerCase(event.title)],
      [event EXCEPT !.id = 103, !.source.url = "https://ex.io/q"],
      task }

ProviderKinds ==
    { "google-calendar", "google-tasks", "microsoft-calendar", "microsoft-todo",
      "todoist", "ics" }

CreatePayload(capture, provider, allowDuplicates) ==
    [capture |-> capture, provider |-> provider, allowDuplicates |-> allowDuplicates]

\* create requests with what the integration does: the event and the task
\* at each provider as the card sends them, the other captures at the
\* default provider, the event again with duplicates allowed, and requests
\* the integration fails
CreateCallsOf(event, task) ==
    { [ request |-> CreatePayload(c, Some(k), Some(FALSE)), outcome |-> Accepts ] :
        c \in {event, task}, k \in ProviderKinds }
    \cup { [ request |-> CreatePayload(c, Undefined, Undefined), outcome |-> Accepts ] :
             c \in CreateCaptures(event, task) }
    \cup { [ request |-> CreatePayload(event, Undefined, Some(TRUE)),
             outcome |-> Accepts ] }
    \cup { [ request |-> CreatePayload(event, Some("google-calendar"), Some(FALSE)),
             outcome |-> o ] :
               o \in { Fails(Some("Backend Error"), Answered),
                       Fails(Some("Unauthorized"), AnsweredAgain),
                       Fails(Undefined, FetchRejected) } }
    \cup { [ request |-> CreatePayload(task, Some("google-tasks"), Some(FALSE)),
             outcome |-> Fails(Some("Forbidden"), Answered) ],
           [ request |-> CreatePayload(event, Some("ics"), Some(FALSE)),
             outcome |-> Fails(Undefined, <<>>) ] }

CreateCalls == CreateCallsOf(EventCapture, TaskCapture)

\* n items recorded by earlier create requests
EarlierItems(n) ==
    [ i \in 1..n |->
        [ id |-> 1000 + i, kind |-> "task", title |-> "Old", start |-> Undefined,
          end |-> Undefined, due |-> Some(Iso(1, i)), sourceUrl |-> "https://ex.io/old",
          provider |-> "ics", createdAt |-> i ] ]

(***************************************************************************)
(* The worker at work.  The listener of onMessage starts the handler of a  *)
(* request and returns its promise, so the next request is received while  *)
(* the handler waits; a handler runs from one await to the next without    *)
(* interruption.  The locals of every handler are kept in running.  A step *)
(* is the completion of the operation a handler waits for, with its effect *)
(* on the storage, followed by the handler's code up to its next await.    *)
(* A request is received a minute after the one before.                    *)
(***************************************************************************)
Handled == clock - ClockStart

WorkerInit ==
    /\ payload = Undefined
    /\ defaults = DEFAULTS
    /\ matches = <<>>
    /\ results = <<>>
    /\ calledAt = <<>>
    /\ hostZone = "UTC"
    /\ clock = ClockStart
    /\ nextUuid = 1
    /\ syncSettings = Undefined
    /\ localAiKey = Undefined
    /\ history = <<>>
    /\ recorded = <<>>
    /\ providerCalls = <<>>
    /\ running = <<>>
    /\ Quiet

\* what every handler leaves alone
Idle == UNCHANGED <<payload, defaults, matches, results, calledAt, hostZone, asyncVars>>

\* the locals of a handler that was just called: the request, what the
\* services it calls will do, the operation it waits for, and the zone it
\* passes to getSettings; called are the integrations it has called and
\* awaits the operations the integration or the enrichment it has called
\* has yet to await, the first of them pending
Handler(type, body, environment, pc, tz) ==
    [ type |-> type, payload |-> body, environment |-> environment,
      pc |-> pc, tz |-> tz,
      stored |-> Undefined, aiKey |-> Undefined, writing |-> Undefined,
      settings |-> Undefined, saving |-> Undefined,
      read |-> <<>>, items |-> <<>>, duplicate |-> Undefined, route |-> Undefined,
      called |-> <<>>, awaits |-> <<>>, local |-> Undefined, reply |-> Undefined ]

\* the handler returns: its promise is resolved with answer
Answer(h, answer) == [h EXCEPT !.pc = "done", !.reply = Some(answer)]

\* handleParse from parseCapture to the await of the enrichment: an
\* exception of parseCapture rejects the promise; enhanceWithAI is called
\* with a configuration that is enabled and has a key, and sends a request
\* for the providers gemini and huggingface
handleParseParsed(h, response, aiCfg) ==
    LET g == [h EXCEPT !.local = Some(response)]
    IN IF response.threw THEN Answer(g, Rejected)
       ELSE IF /\ aiCfg.enabled /\ aiCfg.apiKey.defined /\ aiCfg.apiKey.value # ""
               /\ aiCfg.provider \in {"gemini", "huggingface"}
       THEN [g EXCEPT !.pc = "enhance", !.awaits = enhanceAwaits(h.environment.ai)]
       ELSE Answer(g, [type |-> "quickadd:parse:result", payload |-> response])

\* handleParse after the enrichment: the response with the enrichment
\* merged in
handleParseEnhanced(h) ==
    LET response == h.local.value
        enhanced == enhanceWithAI(h.payload, h.settings.value.aiParser, h.environment.ai)
    IN Answer(h, [ type |-> "quickadd:parse:result",
                   payload |-> IF enhanced.defined
                               THEN [response EXCEPT !.capture =
                                       mergeAI(response.capture, enhanced.value)]
                               ELSE response ])

\* handleCreate after readHistory
handleCreateRead(h, items) ==
    [h EXCEPT !.read = items, !.items = items,
              !.duplicate = IF h.payload.allowDuplicates # Some(TRUE)
                            THEN isDuplicate(h.payload.capture, items) ELSE Undefined,
              !.pc = "sync.get"]

\* handleCreate after its result is known: the note, and after an ok result
\* the item is pushed on the items read and writeHistory is awaited
handleCreateResult(h, called, at) ==
    IF ~called.result.defined THEN Answer(h, Rejected)
    ELSE LET result == withProviderNote(called.result.value, h.route.value.note)
             historyItem == historyItemOf(h.payload.capture, result.provider, at)
             answered == Answer(h, [type |-> "quickadd:create:result", payload |-> result])
         IN IF result.ok
            THEN [answered EXCEPT !.pc = "writeHistory", !.items = Append(@, historyItem)]
            ELSE answered

\* handleCreate from getSettings to the await of the integration.
\* settings.provider is always set, so the 'ics' fallback of
\* requestedProvider is never taken.  A provider without integration, or
\* with one the capture does not fit, gives its result without an await; an
\* integration is called, and runs to its first await, as soon as
\* getSettings has returned.
handleCreateSettled(h, settings, at) ==
    LET requestedProvider == IF h.payload.provider.defined THEN h.payload.provider.value
                             ELSE settings.provider
        route == routeProvider(requestedProvider, h.payload.capture.kind)
        g == [h EXCEPT !.route = Some(route)]
        called == callProvider(route.provider, h.payload.capture, h.environment.outcome)
    IN IF h.duplicate.defined
       THEN Answer(g, [ type |-> "quickadd:create:result",
                        payload |-> [CreateResponse(FALSE, route.provider) EXCEPT
                                       !.warning = Some("Similar item exists"),
                                       !.deduped = Some(TRUE),
                                       !.id = Some(h.duplicate.value.id)] ])
       ELSE IF called.calls = <<>> THEN handleCreateResult(g, called, at)
       ELSE [g EXCEPT !.pc = "provider", !.called = called.calls, !.awaits = called.awaits]

\* handleClearHistory after readHistory: writeHistory([]) is awaited
handleClearHistory(h, items) ==
    [ Answer(h, [ type |-> "quickadd:clear-history:result",
                  payload |-> [removed |-> Len(items)] ])
        EXCEPT !.read = items, !.items = <<>>, !.pc = "writeHistory" ]

\* the code that follows the return of getSettings in each handler; found
\* is the response of parseCapture for a parse request
afterSettings(h, settings, at, zone, uuidSeed) ==
    LET g == [h EXCEPT !.settings = Some(settings)]
    IN CASE h.type = "quickadd:parse" ->
              handleParseParsed(g, parseCapture(h.payload,
                                                [settings.defaults EXCEPT !.tz = h.payload.tz],
                                                at, zone, h.environment.matches, uuidSeed),
                                settings.aiParser)
         [] h.type = "quickadd:create" -> handleCreateSettled(g, settings, at)
         [] h.type = "quickadd:get-settings" ->
              Answer(g, [type |-> "quickadd:get-settings:result", payload |-> settings])
         [] h.type = "quickadd:set-ai-config" ->
              [g EXCEPT !.pc = "save.sync",
                        !.saving = Some(saveSettings([settings EXCEPT !.aiParser = h.payload],
                                                     at))]
         [] OTHER -> [g EXCEPT !.pc = "done"]

\* handler i goes on as g: the identifiers parseCapture drew are used up,
\* and the integration it calls is on record
Resume(i, g) ==
    /\ running' = [running EXCEPT ![i] = g]
    /\ providerCalls' = providerCalls \o IF running[i].called = <<>> THEN g.called
                                          ELSE <<>>
    /\ nextUuid' = nextUuid + IF g.local.defined /\ ~running[i].local.defined
                              THEN UuidsDrawn(g.local.value) ELSE 0

\* the handler of a request or of an event is called and waits
Call(h) ==
    /\ running' = Append(running, h)
    /\ clock' = clock + 1
    /\ UNCHANGED <<syncSettings, localAiKey, history, recorded, providerCalls, nextUuid>>
    /\ Idle

HandleParse ==
    /\ Handled < MaxRequests
    /\ \E request \in ParseRequests, ai \in AiReplies :
          Call(Handler("quickadd:parse", request.payload,
                       [matches |-> request.matches, ai |-> ai], "sync.get",
                       request.payload.tz))

HandleCreate ==
    /\ Handled < MaxRequests
    /\ \E call \in CreateCalls :
          Call(Handler("quickadd:create", call.request, [outcome |-> call.outcome],
                       "readHistory", hostZone))

HandleGetSettings ==
    /\ Handled < MaxRequests
    /\ Call(Handler("quickadd:get-settings", Undefined, Undefined, "sync.get", hostZone))

\* saveSettings builds what it stores, with the time, before its first await
HandleSaveSettings ==
    /\ Handled < MaxRequests
    /\ \E settings \in SettingsChoices :
          Call([ Handler("quickadd:save-settings", settings, Undefined, "save.sync",
                         hostZone)
                   EXCEPT !.saving = Some(saveSettings(settings, clock)) ])

\* 'quickadd:set-ai-config': getSettings, then saveSettings of the result
\* with the configuration of the request
HandleSetAiConfig ==
    /\ Handled < MaxRequests
    /\ \E config \in AiConfigs :
          Call(Handler("quickadd:set-ai-config", config, Undefined, "sync.get", hostZone))

HandleClearHistory ==
    /\ Handled < MaxRequests
    /\ Call(Handler("quickadd:clear-history", Undefined, Undefined, "readHistory", hostZone))

\* the listener of runtime.onInstalled calls getSettings, once; the event
\* counts as a request
Installed ==
    /\ Handled < MaxRequests
    /\ \A i \in 1..Len(running) : running[i].type # "installed"
    /\ Call(Handler("installed", Undefined, Undefined, "sync.get", hostZone))

\* getSettings: storage.sync.get returns the stored settings
SyncGet ==
    \E i \in 1..Len(running) :
        /\ running[i].pc = "sync.get"
        /\ running' = [running EXCEPT ![i].stored = syncSettings, ![i].pc = "local.get"]
        /\ UNCHANGED <<syncSettings, localAiKey, history, recorded, providerCalls,
                       clock, nextUuid>>
        /\ Idle

\* getSettings: storage.local.get returns the stored key; settings that are
\* new or have another zone are written, and otherwise getSettings returns
LocalGet ==
    \E i \in 1..Len(running) :
        /\ running[i].pc = "local.get"
        /\ LET h == [running[i] EXCEPT !.aiKey = localAiKey]
               got == getSettings(h.stored, localAiKey, h.tz, clock)
           IN IF got.sync # h.stored
              THEN Resume(i, [h EXCEPT !.pc = "sync.set", !.writing = got.sync,
                                       !.settings = Some(got.result)])
              ELSE Resume(i, afterSettings(h, got.result, clock, hostZone, nextUuid))
        /\ UNCHANGED <<syncSettings, localAiKey, history, recorded, clock>>
        /\ Idle

\* getSettings: storage.sync.set has stored the settings, and getSettings
\* returns
SyncSet ==
    \E i \in 1..Len(running) :
        /\ running[i].pc = "sync.set"
        /\ syncSettings' = running[i].writing
        /\ Resume(i, afterSettings(running[i], running[i].settings.value, clock,
                                   hostZone, nextUuid))
        /\ UNCHANGED <<localAiKey, history, recorded, clock>>
        /\ Idle

\* saveSettings: storage.sync.set has stored the settings without the key
SaveSync ==
    \E i \in 1..Len(running) :
        /\ running[i].pc = "save.sync"
        /\ syncSettings' = running[i].saving.value.sync
        /\ running' = [running EXCEPT ![i].pc = "save.local"]
        /\ UNCHANGED <<localAiKey, history, recorded, providerCalls, clock, nextUuid>>
        /\ Idle

\* saveSettings: storage.local.set has stored the key, or storage.local.remove
\* has removed it; the settings are returned with the key
SaveLocal ==
    \E i \in 1..Len(running) :
        /\ running[i].pc = "save.local"
        /\ localAiKey' = running[i].saving.value.local
        /\ running' = [running EXCEPT ![i] =
                         Answer(@, [ type |-> "quickadd:get-settings:result",
                                     payload |-> running[i].saving.value.result ])]
        /\ UNCHANGED <<syncSettings, history, recorded, providerCalls, clock, nextUuid>>
        /\ Idle

\* readHistory returns what is stored
ReadHistory ==
    \E i \in 1..Len(running) :
        /\ running[i].pc = "readHistory"
        /\ running' = [running EXCEPT ![i] =
                         IF @.type = "quickadd:create" THEN handleCreateRead(@, history)
                         ELSE handleClearHistory(@, history)]
        /\ UNCHANGED <<syncSettings, localAiKey, history, recorded, providerCalls,
                       clock, nextUuid>>
        /\ Idle

\* the operation the enrichment awaits is through: the fetch, then the
\* reading of the body; after the last of them enhanceWithAI returns
Enhance ==
    \E i \in 1..Len(running) :
        /\ running[i].pc = "enhance"
        /\ running' = [running EXCEPT ![i] =
                         IF Len(@.awaits) > 1 THEN [@ EXCEPT !.awaits = Tail(@)]
                         ELSE handleParseEnhanced([@ EXCEPT !.awaits = <<>>])]
        /\ UNCHANGED <<syncSettings, localAiKey, history, recorded, providerCalls,
                       clock, nextUuid>>
        /\ Idle

\* the operation the integration awaits is through: the token, the fetch,
\* the reading of the body, or the download; after the last of them the
\* integration returns or rejects
Provider ==
    \E i \in 1..Len(running) :
        /\ running[i].pc = "provider"
        /\ LET called == callProvider(running[i].route.value.provider,
                                      running[i].payload.capture,
                                      running[i].environment.outcome)
           IN running' = [running EXCEPT ![i] =
                            IF Len(@.awaits) > 1 THEN [@ EXCEPT !.awaits = Tail(@)]
                            ELSE handleCreateResult([@ EXCEPT !.awaits = <<>>],
                                                    called, clock)]
        /\ UNCHANGED <<syncSettings, localAiKey, history, recorded, providerCalls,
                       clock, nextUuid>>
        /\ Idle

\* writeHistory has stored the items of the handler: those it read with its
\* own item, or none
WriteHistory ==
    \E i \in 1..Len(running) :
        /\ running[i].pc = "writeHistory"
        /\ history' = writeHistory(running[i].items)
        /\ recorded' = IF running[i].type = "quickadd:create"
                       THEN Append(recorded, running[i].payload.capture.id) ELSE <<>>
        /\ running' = [running EXCEPT ![i].pc = "done"]
        /\ UNCHANGED <<syncSettings, localAiKey, providerCalls, clock, nextUuid>>
        /\ Idle

WorkerNext ==
    \/ HandleParse
    \/ HandleCreate
    \/ HandleGetSettings
    \/ HandleSaveSettings
    \/ HandleSetAiConfig
    \/ HandleClearHistory
    \/ Installed
    \/ SyncGet
    \/ LocalGet
    \/ SyncSet
    \/ SaveSync
    \/ SaveLocal
    \/ ReadHistory
    \/ Enhance
    \/ Provider
    \/ WriteHistory

Worker == WorkerInit /\ [][WorkerNext]_vars

\* create and clear-history requests on a history that holds no item, one
\* item less than the limit, or as many as the limit
WorkerHistoryInit ==
    /\ payload = Undefined
    /\ defaults = DEFAULTS
    /\ matches = <<>>
    /\ results = <<>>
    /\ calledAt = <<>>
    /\ hostZone = "UTC"
    /\ clock = ClockStart
    /\ nextUuid = 1
    /\ syncSettings = Undefined
    /\ localAiKey = Undefined
    /\ history \in {EarlierItems(n) : n \in {0, HISTORY_LIMIT - 1, HISTORY_LIMIT}}
    /\ recorded = [i \in 1..Len(history) |-> history[i].id]
    /\ providerCalls = <<>>
    /\ running = <<>>
    /\ Quiet

WorkerHistoryNext ==
    \/ HandleCreate
    \/ HandleClearHistory
    \/ ReadHistory
    \/ SyncGet
    \/ LocalGet
    \/ SyncSet
    \/ Provider
    \/ WriteHistory

WorkerHistory == WorkerHistoryInit /\ [][WorkerHistoryNext]_vars

(***************************************************************************)
(* googleFetch (background/google.ts).  The identity service and the       *)
(* Google API are the environment: an acquisition gives a token or none    *)
(* (a rejection is caught and counts as none), a request is answered with  *)
(* a status or fails, removeCachedAuthToken returns or rejects.  A step is *)
(* the completion of one await and the code up to the next.                *)
(***************************************************************************)
Tokens == {"token-1", "token-2"}

TokenOutcomes == {Some(t) : t \in Tokens} \cup {Undefined}

\* the answers of fetch: a response with a status, or a rejection
HttpOutcomes ==
    { [rejected |-> FALSE, status |-> n] : n \in {200, 401, 403, 500} }
    \cup { [rejected |-> TRUE, status |-> 0] }

\* variant: a 401 is returned at once
afterResponseNoRetry(status, retry) == "done"

\* response.status === 401 && retry: invalidate and call again, else return
afterResponse(status, retry) ==
    IF status = 401 /\ retry THEN "invalidate" ELSE "done"

\* googleFetch(input, init) is called: retry is true, getAuthToken starts
\* with acquireToken(false)
CallFetch ==
    /\ fetch.pc = "idle"
    /\ fetch' = [fetch EXCEPT !.pc = "acquireSilent", !.retry = TRUE]
    /\ UNCHANGED <<payload, defaults, matches, hostZone, clock, nextUuid, results,
                   calledAt, workerVars, message, verdicts, pageVars>>

\* acquireToken(false) returns: with a token the request is sent, without
\* one acquireToken(true) is tried
AcquireSilent ==
    /\ fetch.pc = "acquireSilent"
    /\ \E token \in TokenOutcomes :
         fetch' = [fetch EXCEPT
                     !.acquired = Append(@, [interactive |-> FALSE, token |-> token]),
                     !.token = token,
                     !.pc = IF token.defined THEN "request" ELSE "acquireInteractive"]
    /\ UNCHANGED <<payload, defaults, matches, hostZone, clock, nextUuid, results,
                   calledAt, workerVars, message, verdicts, pageVars>>

\* acquireToken(true) returns: without a token getAuthToken throws
AcquireInteractive ==
    /\ fetch.pc = "acquireInteractive"
    /\ \E token \in TokenOutcomes :
         fetch' = [fetch EXCEPT
                     !.acquired = Append(@, [interactive |-> TRUE, token |-> token]),
                     !.token = token,
                     !.pc = IF token.defined THEN "request" ELSE "done",
                     !.result = IF token.defined THEN @ ELSE Some([threw |-> TRUE])]
    /\ UNCHANGED <<payload, defaults, matches, hostZone, clock, nextUuid, results,
                   calledAt, workerVars, message, verdicts, pageVars>>

\* fetch(input, {...init, headers}) with 'Bearer token' is answered
HttpRequest ==
    /\ fetch.pc = "request"
    /\ \E outcome \in HttpOutcomes :
         LET sent == [token |-> fetch.token.value, outcome |-> outcome]
         IN fetch' =
              IF outcome.rejected
              THEN [fetch EXCEPT !.requests = Append(@, sent), !.pc = "done",
                                 !.result = Some([threw |-> TRUE])]
              ELSE [fetch EXCEPT
                      !.requests = Append(@, sent),
                      !.pc = afterResponse(outcome.status, fetch.retry),
                      !.result = IF afterResponse(outcome.status, fetch.retry) = "done"
                                 THEN Some([threw |-> FALSE, status |-> outcome.status])
                                 ELSE @]
    /\ UNCHANGED <<payload, defaults, matches, hostZone, clock, nextUuid, results,
                   calledAt, workerVars, message, verdicts, pageVars>>

\* invalidateToken(token) returns (a rejection of removeCachedAuthToken is
\* caught), then googleFetch(input, init, false)
InvalidateToken ==
    /\ fetch.pc = "invalidate"
    /\ \E removed \in BOOLEAN :
         fetch' = [fetch EXCEPT
                     !.invalidated = Append(@, [token |-> fetch.token.value,
                                                removed |-> removed]),
                     !.retry = FALSE,
                     !.pc = "acquireSilent"]
    /\ UNCHANGED <<payload, defaults, matches, hostZone, clock, nextUuid, results,
                   calledAt, workerVars, message, verdicts, pageVars>>

FetchNext ==
    \/ CallFetch
    \/ AcquireSilent
    \/ AcquireInteractive
    \/ HttpRequest
    \/ InvalidateToken

\* every await of the call returns
Fetch == WorkerInit /\ [][FetchNext]_vars /\ WF_vars(FetchNext)

(***************************************************************************)
(* The runtime messages and their type guards (shared/messages.ts).        *)
(***************************************************************************)
BackgroundRequestTypes ==
    { "quickadd:parse", "quickadd:create", "quickadd:get-settings",
      "quickadd:save-settings", "quickadd:set-ai-config", "quickadd:clear-history",
      "quickadd:auth-status", "quickadd:auth-connect", "quickadd:auth-disconnect",
      "quickadd:log" }

BackgroundResponseTypes ==
    { "quickadd:parse:result", "quickadd:create:result", "quickadd:get-settings:result",
      "quickadd:clear-history:result", "quickadd:auth-status:result",
      "quickadd:auth-ack", "quickadd:ack" }

ContentMessageTypes == { "quickadd:command", "quickadd:toast" }

\* an object with the property type
TypedMessage(isString, text) ==
    [ value |-> "object", type |-> Some([string |-> isString, text |-> text]) ]

\* the messages of the three unions, and values that belong to none: null,
\* a string, objects without a type, with a number as type, and with
\* types no union declares
Messages ==
    { TypedMessage(TRUE, t) :
        t \in BackgroundRequestTypes \cup BackgroundResponseTypes \cup ContentMessageTypes
               \cup {"other:ping", "ping:result", "quickadd:unknown", ""} }
    \cup { TypedMessage(FALSE, "7"),
           [value |-> "object", type |-> Undefined],
           [value |-> "null", type |-> Undefined],
           [value |-> "string", type |-> Undefined] }

\* !message || typeof message !== 'object'
NotAnObject(m) == m.value # "object"

isBackgroundRequest(m) ==
    IF NotAnObject(m) THEN FALSE
    ELSE /\ m.type.defined /\ m.type.value.string
         /\ startsWith(m.type.value.text, "quickadd:")
         /\ ~includes(m.type.value.text, ":result")

isBackgroundResponse(m) ==
    IF NotAnObject(m) THEN FALSE
    ELSE /\ m.type.defined /\ m.type.value.string
         /\ includes(m.type.value.text, ":result")

isContentMessage(m) ==
    IF NotAnObject(m) THEN FALSE
    ELSE /\ m.type.defined /\ m.type.value.string
         /\ m.type.value.text \in {"quickadd:command", "quickadd:toast"}

\* a message reaches a listener
Arrive ==
    /\ message = Undefined
    /\ message' \in {Some(m) : m \in Messages}
    /\ UNCHANGED <<payload, defaults, matches, hostZone, clock, nextUuid, results,
                   calledAt, workerVars, fetch, verdicts, pageVars>>

GuardRequest ==
    /\ message.defined /\ ~verdicts.request.defined
    /\ verdicts' = [verdicts EXCEPT !.request = Some(isBackgroundRequest(message.value))]
    /\ UNCHANGED <<payload, defaults, matches, hostZone, clock, nextUuid, results,
                   calledAt, workerVars, fetch, message, pageVars>>

GuardResponse ==
    /\ message.defined /\ ~verdicts.response.defined
    /\ verdicts' = [verdicts EXCEPT !.response = Some(isBackgroundResponse(message.value))]
    /\ UNCHANGED <<payload, defaults, matches, hostZone, clock, nextUuid, results,
                   calledAt, workerVars, fetch, message, pageVars>>

GuardContent ==
    /\ message.defined /\ ~verdicts.content.defined
    /\ verdicts' = [verdicts EXCEPT !.content = Some(isContentMessage(message.value))]
    /\ UNCHANGED <<payload, defaults, matches, hostZone, clock, nextUuid, results,
                   calledAt, workerVars, fetch, message, pageVars>>

GuardsNext == Arrive \/ GuardRequest \/ GuardResponse \/ GuardContent

Guards == WorkerInit /\ [][GuardsNext]_vars

(***************************************************************************)
(* The content script.  Its handlers run on one thread; a handler that     *)
(* awaits the answer of the worker is split at the await: the part before  *)
(* it sends the request, the part after it runs when the answer arrives,   *)
(* and the answers to several requests arrive in any order.                *)
(***************************************************************************)

\* what the user may have selected: nothing, two characters, two phrases
Selections ==
    { "", "ok", "Buy milk", "Lunch with Sam tomorrow at 1pm",
      "Lunch with Sam tomorrow at 1pm or Friday" }

CommandModes == {"smart", "force-event", "force-task"}

\* Object.assign(state, partial), for the fields resetCard clears
resetCard(st) ==
    [st EXCEPT !.parseResult = Undefined, !.captureDraft = Undefined,
               !.alternatives = Undefined, !.warnings = Undefined,
               !.diagnostics = Undefined, !.isCardVisible = FALSE,
               !.isParsing = FALSE, !.isSaving = FALSE, !.isEditing = FALSE]

\* ensureSelection: a selection text with its range, or any selection text
ensureSelection(st, range) ==
    IF st.selectionText # "" /\ range.defined THEN TRUE
    ELSE st.selectionText # ""

modeForcedKind(mode) ==
    IF mode = "force-event" THEN Some("event")
    ELSE IF mode = "force-task" THEN Some("task") ELSE Undefined

modeProviderHint(mode) ==
    IF mode = "force-event" THEN Some("google-calendar")
    ELSE IF mode = "force-task" THEN Some("google-tasks") ELSE Undefined

\* triggerParse up to its await: the state it sets and the request it sends,
\* or the state untouched and no request; tz is the zone of the page and at
\* the time, sent as new Date().toISOString()
triggerParse(st, range, mode, tz, at) ==
    IF ~ensureSelection(st, range) \/ Len(st.selectionText) < 3
    THEN [state |-> st, request |-> Undefined]
    ELSE [ state |-> [st EXCEPT !.mode = mode,
                                !.forcedKind = modeForcedKind(mode),
                                !.providerHint = modeProviderHint(mode),
                                !.parseResult = Undefined,
                                !.captureDraft = Undefined,
                                !.alternatives = Undefined,
                                !.warnings = Undefined,
                                !.diagnostics = Undefined,
                                !.isCardVisible = TRUE,
                                !.isParsing = TRUE,
                                !.isEditing = FALSE],
           request |-> Some([ type |-> "quickadd:parse",
                              payload |-> Payload(st.selectionText, tz,
                                                  modeForcedKind(mode),
                                                  Some([ wall |-> at,
                                                         offset |-> Some(0) ])) ]) ]

parseFailedStuck(st) == st

\* the catch block of triggerParse
parseFailed(st) == [st EXCEPT !.isParsing = FALSE]

\* triggerParse after its await, on the answer or the rejection
parseAnswered(st, response) ==
    IF response.type # "quickadd:parse:result"
    THEN parseFailed(st)
    ELSE [st EXCEPT !.parseResult = Some(response.payload),
                    !.captureDraft = Some(response.payload.capture),
                    !.alternatives = response.payload.alternatives,
                    !.warnings = response.payload.warnings,
                    !.diagnostics = response.payload.diagnostics,
                    !.isParsing = FALSE]

\* handleCreate of the card up to its await
cardCreate(st) ==
    IF ~st.captureDraft.defined
    THEN [state |-> st, request |-> Undefined]
    ELSE [ state |-> [st EXCEPT !.isSaving = TRUE],
           request |-> Some([ type |-> "quickadd:create",
                              payload |-> [ capture |-> st.captureDraft.value,
                                            provider |-> st.providerHint,
                                            allowDuplicates |-> FALSE ] ]) ]

\* handleCreate of the card after its await
createAnswered(st, response) ==
    IF response.type # "quickadd:create:result"
    THEN [st EXCEPT !.isSaving = FALSE]
    ELSE IF response.payload.ok THEN resetCard(st)
    ELSE [st EXCEPT !.isSaving = FALSE]

\* the alternative button of the card
handleAlternativeChoice(st, capture) == [st EXCEPT !.captureDraft = Some(capture)]

\* the Edit button of the card
toggleEdit(st) == [st EXCEPT !.isEditing = ~st.isEditing]

\* an input of the edit section: the field of the draft takes the value
handleUpdate(st, field, value) ==
    IF ~st.captureDraft.defined THEN st
    ELSE [st EXCEPT !.captureDraft = Some([st.captureDraft.value EXCEPT ![field] = value])]

\* the value of a datetime-local input (Undefined for the empty value, else
\* the wall-clock time typed) read in the zone of the host and written as an
\* ISO string in tz
fromLocalInput(value, tz, zone) ==
    IF ~value.defined THEN Undefined
    ELSE LET dt == DateTime(value.value - ZoneOffset(zone), zone)
         IN IF ~dt.valid THEN Undefined ELSE toISO(setZone(dt, tz))

\* the Start or End input of the edit section
handleEventTimeChange(st, kind, inputValue, zone) ==
    IF ~st.captureDraft.defined THEN st
    ELSE IF st.captureDraft.value.kind # "event" THEN st
    ELSE LET iso == fromLocalInput(inputValue, st.captureDraft.value.tz, zone)
         IN IF ~iso.defined THEN st
            ELSE [st EXCEPT !.captureDraft =
                     Some([st.captureDraft.value EXCEPT ![kind] = iso.value])]

\* the Due input of the edit section: an empty value leaves the task
\* without due time
handleTaskDueChange(st, inputValue, zone) ==
    IF ~st.captureDraft.defined THEN st
    ELSE IF st.captureDraft.value.kind # "task" THEN st
    ELSE LET iso == fromLocalInput(inputValue, st.captureDraft.value.tz, zone)
         IN [st EXCEPT !.captureDraft =
                Some([st.captureDraft.value EXCEPT
                        !.due = IF iso.defined THEN iso.value ELSE Undefined])]

\* an answer of the worker that is of another type than the expected one
UnexpectedResponse == [type |-> "quickadd:ack"]

\* what the recognizer finds in the selections
Recognized(text) ==
    LET tomorrow == [ text |-> "tomorrow at 1pm",
                      start |-> Component(1, 13 * 60, TRUE, Undefined),
                      end |-> Undefined ]
        friday == [ text |-> "Friday",
                    start |-> Component(4, 12 * 60, FALSE, Undefined),
                    end |-> Undefined ]
    IN IF text = "Lunch with Sam tomorrow at 1pm" THEN <<tomorrow>>
       ELSE IF text = "Lunch with Sam tomorrow at 1pm or Friday" THEN <<tomorrow, friday>>
       ELSE <<>>

\* what handleParse returns for a request of the page with the shipped
\* settings: the response of parseCapture, its identifiers from uuidSeed on
\* (an exception of parseCapture rejects the request)
pageParse(p, wallClock, zone, uuidSeed) ==
    LET response == parseCapture(p, [DEFAULTS EXCEPT !.tz = p.tz], wallClock, zone,
                                 Recognized(p.text), uuidSeed)
    IN IF response.threw THEN Undefined ELSE Some(response)

\* what the worker may answer to a parse request: the result of handleParse,
\* a message of another type, or a rejection
ParseResponses(result) ==
    (IF result.defined
     THEN {[type |-> "quickadd:parse:result", payload |-> result.value]}
     ELSE {})
    \cup {UnexpectedResponse, Rejected}

\* what the worker may answer to a create request
CreateResponses ==
    { [type |-> "quickadd:create:result", payload |-> [ok |-> ok]] : ok \in BOOLEAN }
    \cup {UnexpectedResponse, Rejected}

\* the requests sent so far; a request in flight is kept with its number and,
\* for a parse request, with what handleParse computes on it
Sent == Len(pending) + Len(settled)

Without(seq, i) == SubSeq(seq, 1, i - 1) \o SubSeq(seq, i + 1, Len(seq))

Elsewhere == UNCHANGED <<payload, defaults, matches, hostZone, clock, nextUuid, results,
                         calledAt, workerVars, fetch, message, verdicts>>

\* the timer of updateSelectionFromDocument fires; text is the trimmed text of
\* the selection, "" when it is collapsed or blank (a selection that is not
\* collapsed has a range, so getRangeAt(0) returns it)
SelectionChange ==
    \E text \in Selections :
        /\ IF text = ""
           THEN /\ selectionRange' = Undefined
                /\ state' = [state EXCEPT !.selectionText = ""]
           ELSE /\ selectionRange' = Some("Range")
                /\ state' = [state EXCEPT !.selectionText = text]
        /\ UNCHANGED <<pending, settled, edits>>
        /\ Elsewhere

\* the chip is clicked, or a command message arrives
TriggerParse ==
    \E mode \in CommandModes :
        LET r == triggerParse(state, selectionRange, mode, hostZone, clock)
        IN  /\ Sent < MaxSends
            /\ state' = r.state
            /\ pending' = IF r.request.defined
                          THEN Append(pending,
                                      [ nr |-> Sent + 1, message |-> r.request.value,
                                        result |-> pageParse(r.request.value.payload,
                                                             clock, hostZone,
                                                             MaxCandidates * (Sent + 1)) ])
                          ELSE pending
            /\ UNCHANGED <<selectionRange, settled, edits>>
            /\ Elsewhere

\* the answer to a parse request arrives
ParseAnswer ==
    \E i \in 1..Len(pending) :
        /\ pending[i].message.type = "quickadd:parse"
        /\ \E response \in ParseResponses(pending[i].result) :
            /\ state' = parseAnswered(state, response)
            /\ settled' = Append(settled, [request |-> pending[i], response |-> response])
        /\ pending' = Without(pending, i)
        /\ UNCHANGED <<selectionRange, edits>>
        /\ Elsewhere

\* the Yes button of the card is clicked
ClickYes ==
    LET r == cardCreate(state)
    IN  /\ Sent < MaxSends
        /\ state.isCardVisible
        /\ ~(state.isSaving \/ ~state.captureDraft.defined)
        /\ state' = r.state
        /\ pending' = IF r.request.defined
                      THEN Append(pending, [ nr |-> Sent + 1, message |-> r.request.value,
                                             result |-> Undefined ])
                      ELSE pending
        /\ UNCHANGED <<selectionRange, settled, edits>>
        /\ Elsewhere

\* the answer to a create request arrives
CreateAnswer ==
    \E i \in 1..Len(pending) :
        /\ pending[i].message.type = "quickadd:create"
        /\ \E response \in CreateResponses :
            /\ state' = createAnswered(state, response)
            /\ settled' = Append(settled, [request |-> pending[i], response |-> response])
        /\ pending' = Without(pending, i)
        /\ UNCHANGED <<selectionRange, edits>>
        /\ Elsewhere

\* the close button or the No button of the card is clicked
CloseCard ==
    /\ state.isCardVisible
    /\ state' = resetCard(state)
    /\ UNCHANGED <<selectionRange, pending, settled, edits>>
    /\ Elsewhere

\* one of the buttons under "Did you mean:" is clicked
AlternativeChoice ==
    /\ state.isCardVisible
    /\ state.alternatives.defined
    /\ \E k \in 1..Len(state.alternatives.value) :
          state' = handleAlternativeChoice(state, state.alternatives.value[k])
    /\ UNCHANGED <<selectionRange, pending, settled, edits>>
    /\ Elsewhere

\* the Edit button, or Done editing, is clicked
ToggleEdit ==
    /\ state.isCardVisible
    /\ state' = toggleEdit(state)
    /\ UNCHANGED <<selectionRange, pending, settled, edits>>
    /\ Elsewhere

\* what is typed in a text input of the edit section
TypedTexts == {"", "Dinner with Sam"}

\* the values of a datetime-local input: empty, or day 12 at 18:30
LocalInputs == {Undefined, Some(12 * MinutesPerDay + 18 * 60 + 30)}

\* the edit section is rendered for a draft while isEditing is set
EditSection == state.isCardVisible /\ state.captureDraft.defined /\ state.isEditing

\* the Title, Location or Notes input changes: the title takes the text as
\* it is, the location and the notes take value || undefined
Update ==
    /\ EditSection
    /\ edits < MaxEdits
    /\ \E field \in {"title", "location", "notes"}, typed \in TypedTexts :
          state' = handleUpdate(state, field,
                                IF field = "title" THEN typed
                                ELSE IF typed = "" THEN Undefined ELSE Some(typed))
    /\ edits' = edits + 1
    /\ UNCHANGED <<selectionRange, pending, settled>>
    /\ Elsewhere

\* the Start or End input of an event draft changes
EventTimeChange ==
    /\ EditSection
    /\ state.captureDraft.value.kind = "event"
    /\ edits < MaxEdits
    /\ \E kind \in {"start", "end"}, inputValue \in LocalInputs :
          state' = handleEventTimeChange(state, kind, inputValue, hostZone)
    /\ edits' = edits + 1
    /\ UNCHANGED <<selectionRange, pending, settled>>
    /\ Elsewhere

\* the Due input of a task draft changes
TaskDueChange ==
    /\ EditSection
    /\ state.captureDraft.value.kind # "event"
    /\ edits < MaxEdits
    /\ \E inputValue \in LocalInputs :
          state' = handleTaskDueChange(state, inputValue, hostZone)
    /\ edits' = edits + 1
    /\ UNCHANGED <<selectionRange, pending, settled>>
    /\ Elsewhere

PageNext ==
    \/ SelectionChange \/ TriggerParse \/ ParseAnswer \/ ClickYes \/ CreateAnswer
    \/ CloseCard \/ AlternativeChoice \/ ToggleEdit \/ Update \/ EventTimeChange
    \/ TaskDueChange

\* every request of the content script is answered or rejected in the end
Answers == ParseAnswer \/ CreateAnswer

Page == WorkerInit /\ [][PageNext]_vars /\ WF_vars(Answers)


(***************************************************************************)
(* Properties.                                                             *)
(***************************************************************************)
Calls == 1..Len(results)
Returned == {k \in Calls : ~results[k].threw}

Alternatives(r) == IF r.alternatives.defined THEN r.alternatives.value ELSE <<>>
Warnings(r) == IF r.warnings.defined THEN r.warnings.value ELSE <<>>
Captures(r) == <<r.capture>> \o Alternatives(r)

\* the environment of call k
CallTz == IF payload.tz # "" THEN payload.tz ELSE defaults.tz
CallNow(k) == now(CallTz, payload.now, calledAt[k])
CallCandidates(k) == parseWithChrono(matches, CallNow(k), hostZone)

\* the signals of the text the kind decision reads
TextEventScore == scoreText(trim(payload.text), EVENT_KEYWORDS)
TextTaskScore == scoreText(trim(payload.text), TASK_KEYWORDS)
TextClockTime == hasExplicitTime(trim(payload.text))

DowngradeWarning == "Could not detect a date/time. Captured as task."

\* C1: in every event capture of a result (the primary and each
\* alternative) the end instant is not before the start instant.
C1_EndNotBeforeStart ==
    \A k \in Returned : \A i \in 1..Len(Captures(results[k])) :
        LET c == Captures(results[k])[i]
        IN c.kind = "event" => IsoInstant(c.end) >= IsoInstant(c.start)

\* C2: a forced kind wins over the heuristics: forced task gives a task,
\* forced event gives an event whenever there is a temporal candidate.
C2_ForcedKindWins ==
    \A k \in Returned :
        /\ payload.forcedKind = Some("task") => results[k].capture.kind = "task"
        /\ payload.forcedKind = Some("event") /\ Len(matches) > 0
              => results[k].capture.kind = "event"

\* a forced task on a text with a clock time and a candidate, whose event
\* score exceeds its task score, and a forced event on a text whose task
\* score exceeds its event score
C2_Witness ==
    \E k \in Returned :
        /\ Len(matches) > 0
        /\ \/ /\ payload.forcedKind = Some("task")
              /\ TextClockTime /\ TextEventScore > TextTaskScore
              /\ results[k].capture.kind = "task"
           \/ /\ payload.forcedKind = Some("event")
              /\ ~TextClockTime /\ TextTaskScore > TextEventScore
              /\ results[k].capture.kind = "event"

\* the five rules of the kind decision, without a forced kind
CascadeKind(chronoCount, clockTime, eventScore, taskScore) ==
    CASE chronoCount > 0 /\ (clockTime \/ eventScore > taskScore) -> "event"
      [] ~(chronoCount > 0 /\ (clockTime \/ eventScore > taskScore))
         /\ chronoCount = 0 /\ taskScore >= eventScore -> "task"
      [] ~(chronoCount > 0 /\ (clockTime \/ eventScore > taskScore))
         /\ ~(chronoCount = 0 /\ taskScore >= eventScore)
         /\ taskScore > eventScore -> "task"
      [] OTHER -> IF chronoCount > 0 THEN "event" ELSE "task"

\* C3: without a forced kind the chosen kind is the one the five-rule
\* cascade gives for the candidate count, the clock-time flag and the scores.
C3_KindCascade ==
    \A k \in Returned :
        ~payload.forcedKind.defined =>
            LET expected == CascadeKind(Len(matches), TextClockTime,
                                        TextEventScore, TextTaskScore)
            IN /\ results[k].capture.kind = expected
               /\ expected = "task" => results[k].diagnostics.chosenKind = "task"

\* the clock time decides against the scores (rule 2), and the scores
\* decide without a clock time (rule 4)
C3_Witness ==
    \E k \in Returned :
        /\ ~payload.forcedKind.defined /\ Len(matches) > 0
        /\ \/ TextClockTime /\ TextTaskScore > TextEventScore
                /\ results[k].capture.kind = "event"
           \/ ~TextClockTime /\ TextTaskScore > TextEventScore
                /\ results[k].capture.kind = "task"

\* the kind the request asks for: the forced kind, else the cascade's
DesiredKind ==
    IF payload.forcedKind.defined THEN payload.forcedKind.value
    ELSE CascadeKind(Len(matches), TextClockTime, TextEventScore, TextTaskScore)

\* C4: an event is desired, there is no temporal candidate and the
\* request's zone is resolvable: the call
\* returns a task due at the default due time after now (the configured
\* hour and minute, not before now and less than a day after it) and warns
\* "Could not detect a date/time. Captured as task.".
C4_DowngradeToTask ==
    \A k \in Calls :
        DesiredKind = "event" /\ Len(matches) = 0 /\ CallTz \in KnownZones =>
            /\ ~results[k].threw
            /\ results[k].capture.kind = "task"
            /\ LET due == results[k].capture.due
               IN /\ due.wall % MinutesPerDay
                       = defaults.taskDueHour * 60 + defaults.taskDueMinute
                  /\ due.offset = Some(ZoneOffset(CallTz))
                  /\ IsoInstant(due) >= CallNow(k).ts
                  /\ IsoInstant(due) < CallNow(k).ts + MinutesPerDay
            /\ \E i \in 1..Len(Warnings(results[k])) :
                   Warnings(results[k])[i] = DowngradeWarning

\* a downgraded event whose due time has rolled over to the next day
C4_Witness ==
    \E k \in Returned :
        /\ payload.forcedKind = Some("event") /\ Len(matches) = 0
        /\ results[k].capture.kind = "task"
        /\ results[k].capture.due.wall \div MinutesPerDay
              > (CallNow(k).ts + ZoneOffset(CallTz)) \div MinutesPerDay

\* C5: the confidence of every capture of a result lies in [0.10, 0.98].
C5_ConfidenceRange ==
    \A k \in Returned : \A i \in 1..Len(Captures(results[k])) :
        /\ Captures(results[k])[i].confidence >= 10
        /\ Captures(results[k])[i].confidence <= 98

\* an event with a date from a text with five keyword hits, and a task
\* without a date from a text with none
C5_Witness ==
    /\ \E k \in Returned :
          \/ /\ TextEventScore + TextTaskScore >= 5
             /\ results[k].capture.kind = "event"
             /\ results[k].capture.confidence = 90
          \/ /\ TextEventScore + TextTaskScore = 0
             /\ results[k].capture.kind = "task" /\ Len(matches) = 0
             /\ results[k].capture.confidence = 50

\* the temporal field of a capture: start of an event, due of a task
Temporal(c) == IF c.kind = "event" THEN c.start ELSE c.due

\* the start of candidate i of call k as a capture shows it
CandidateStart(k, i) ==
    toIso(toDateTime(CallCandidates(k)[i].start, CallTz, CallNow(k), hostZone)).value

\* C6: the alternatives are omitted unless there is more than one
\* candidate, are never an empty list, are at most two, and alternative i
\* carries the start of candidate i (counting from 0), not of candidate 0.
C6_Alternatives ==
    \A k \in Returned :
        LET r == results[k]
        IN /\ r.alternatives.defined => Len(matches) > 1
           /\ r.alternatives.defined => Len(r.alternatives.value) >= 1
           /\ Len(Alternatives(r)) <= 2
           /\ \A i \in 1..Len(Alternatives(r)) :
                 /\ Temporal(Alternatives(r)[i]) = CandidateStart(k, i + 1)
                 /\ Temporal(Alternatives(r)[i]) # CandidateStart(k, 1)

\* four candidates give two alternatives
C6_Witness ==
    \E k \in Returned :
        /\ Len(matches) >= 4
        /\ Len(Alternatives(results[k])) = 2

\* a capture without its identifier and its temporal fields
NonTemporal(c) ==
    IF c.kind = "event"
    THEN [c EXCEPT !.id = 0, !.start = Undefined, !.end = Undefined]
    ELSE [c EXCEPT !.id = 0, !.due = Undefined]

\* C7: every alternative has the kind of the primary and the primary's
\* value in every field but the identifier and start/end (event) or due
\* (task); the identifiers of one result are pairwise distinct.
C7_AlternativesShareFields ==
    \A k \in Returned :
        LET r == results[k]
            all == Captures(r)
        IN /\ \A i \in 1..Len(Alternatives(r)) :
                 /\ Alternatives(r)[i].kind = r.capture.kind
                 /\ NonTemporal(Alternatives(r)[i]) = NonTemporal(r.capture)
           /\ \A i, j \in 1..Len(all) : i # j => all[i].id # all[j].id

\* an event with two alternatives
C7_Witness ==
    \E k \in Returned :
        /\ results[k].capture.kind = "event"
        /\ Len(Alternatives(results[k])) = 2
        /\ Temporal(Alternatives(results[k])[1]) # Temporal(results[k].capture)

\* C8: a task whose due date comes from a candidate without a certain
\* hour or minute is due on the candidate's date at the configured due
\* hour and minute.
C8_DateOnlyDueAtDefaultTime ==
    \A k \in Returned :
        LET r == results[k]
        IN r.capture.kind = "task" /\ Len(matches) > 0
           /\ isAllDay(CallCandidates(k)[1].start)
           => /\ r.capture.due.wall % MinutesPerDay
                    = defaults.taskDueHour * 60 + defaults.taskDueMinute
              /\ r.capture.due.wall \div MinutesPerDay
                    = CallCandidates(k)[1].start.value.wall \div MinutesPerDay

\* C9: the diagnostics of every result hold the number of candidates and
\* the chosen kind, and that kind is the kind of the primary capture.
C9_Diagnostics ==
    \A k \in Returned :
        LET d == results[k].diagnostics
        IN /\ "chronoMatches" \in DOMAIN d
           /\ d.chronoMatches = Len(matches)
           /\ "chosenKind" \in DOMAIN d
           /\ d.chosenKind = results[k].capture.kind

\* a result without its identifiers
WithoutIds(r) ==
    IF r.threw THEN r
    ELSE [r EXCEPT !.capture = [@ EXCEPT !.id = 0],
                   !.alternatives =
                       IF @.defined
                       THEN Some([i \in 1..Len(@.value) |-> [@.value[i] EXCEPT !.id = 0]])
                       ELSE @]

\* C10: two calls on the same request with a now-override and the same
\* defaults return results that differ in the identifiers only.
C10_Deterministic ==
    \A j, k \in Calls :
        payload.now.defined => WithoutIds(results[j]) = WithoutIds(results[k])

\* two calls at different clock readings, the second with fresh identifiers
C10_Witness ==
    /\ Len(results) >= 2
    /\ payload.now.defined
    /\ calledAt[1] # calledAt[2]
    /\ ~results[1].threw /\ ~results[2].threw
    /\ results[1].capture.id # results[2].capture.id
    /\ WithoutIds(results[1]) = WithoutIds(results[2])

\* C12: a request whose timezone identifier cannot be resolved makes
\* parseCapture throw, whichever branch it takes; a returned capture carries
\* the requested zone and instants written at that zone's offset.
C12_UnresolvableZoneFails ==
    /\ \A k \in Calls : CallTz \notin KnownZones => results[k].threw
    /\ \A k \in Returned : \A i \in 1..Len(Captures(results[k])) :
          LET c == Captures(results[k])[i]
          IN /\ c.tz = CallTz
             /\ Temporal(c).offset = Some(ZoneOffset(CallTz))

\* a forced event with a candidate (the event branch) fails on an
\* unresolvable zone
C12_Witness ==
    \E k \in Calls :
        /\ CallTz \notin KnownZones
        /\ payload.forcedKind = Some("event") /\ Len(matches) > 0
        /\ results[k].threw

\* the configured due time on the day that now shows in the request's zone
SameDayDue(k) ==
    LET z == ZoneOffset(CallTz)
    IN ((CallNow(k).ts + z) \div MinutesPerDay) * MinutesPerDay
       + defaults.taskDueHour * 60 + defaults.taskDueMinute - z

\* the due instant without a candidate: the same-day due time, or the next
\* day's when the same-day due time is strictly before now
DefaultDueRule(k) ==
    LET due == IsoInstant(results[k].capture.due)
    IN /\ results[k].capture.kind = "task"
       /\ due = IF SameDayDue(k) < CallNow(k).ts
                THEN SameDayDue(k) + MinutesPerDay ELSE SameDayDue(k)
       /\ due >= CallNow(k).ts

\* the addresses EMAIL_REGEX finds in the text of the request
TextEmails == EmailMatches(trim(payload.text), 1)

\* C14: the attendees are the distinct lower-cased addresses of the text:
\* every entry is an address of the text in lower case, every address of
\* the text has an entry, no address has two, and an entry has no name.
C14_Attendees ==
    \A k \in Returned : \A i \in 1..Len(Captures(results[k])) :
        LET attendees == Captures(results[k])[i].attendees
        IN /\ \A a \in 1..Len(attendees) :
                /\ DOMAIN attendees[a] = {"email"}
                /\ attendees[a].email = toLowerCase(attendees[a].email)
                /\ \E m \in 1..Len(TextEmails) :
                      attendees[a].email = toLowerCase(TextEmails[m])
           /\ \A m \in 1..Len(TextEmails) : \E a \in 1..Len(attendees) :
                attendees[a].email = toLowerCase(TextEmails[m])
           /\ \A a, b \in 1..Len(attendees) :
                attendees[a].email = attendees[b].email => a = b

\* a text that writes one address twice in different letter case gives one
\* attendee
C14_Witness ==
    \E k \in Returned :
        /\ Len(TextEmails) = 2
        /\ TextEmails[1] # TextEmails[2]
        /\ Len(results[k].capture.attendees) = 1

\* the candidate the primary capture of call k is built from
PrimaryCandidate(k) == CallCandidates(k)[1].start.value

\* C18: a capture built from a candidate without an explicit offset shows
\* the candidate's wall-clock fields at the offset of the request's zone,
\* whatever the zone of the host; one built from a candidate with an
\* explicit offset shows the instant obtained by reading the parsed instant
\* as UTC and subtracting the offset, in the request's zone.
C18_CandidateToZone ==
    \A k \in Returned : Len(matches) > 0 =>
        LET t == Temporal(results[k].capture)
            candidate == PrimaryCandidate(k)
        IN /\ t.offset = Some(ZoneOffset(CallTz))
           /\ IF candidate.timezoneOffset.defined
              THEN IsoInstant(t) = candidate.date - candidate.timezoneOffset.value
              ELSE t.wall = candidate.wall

\* a clock time as the kind decision is described to detect it: an hour,
\* optionally [:.] and two digits of minutes, then am or pm
MeridiemTime(text) ==
    \E i \in 1..Len(text), d1 \in 1..2, m \in {0, 3}, w \in 0..1 :
        /\ WordBoundary(text, i)
        /\ AllIn(text, i, d1, Digits)
        /\ m = 3 => /\ CharAt(text, i + d1) \in {":", "."}
                    /\ AllIn(text, i + d1 + 1, 2, Digits)
        /\ w = 1 => CharAt(text, i + d1 + m) \in WhiteSpace
        /\ \/ StartsWithI(text, i + d1 + m + w, "am")
           \/ StartsWithI(text, i + d1 + m + w, "pm")
        /\ WordBoundary(text, i + d1 + m + w + 2)

\* C19: the clock-time flag is set only by a clock time with am/pm or by
\* "noon" or "midnight"; a text without them, with a candidate and with
\* more task keywords than event keywords, is classified task.
C19_ClockTimeFlag ==
    \A k \in Returned :
        LET text == trim(payload.text)
            written == MeridiemTime(text) \/ NoonRegex(text)
        IN /\ TextClockTime => written
           /\ ( /\ ~written /\ ~payload.forcedKind.defined
                /\ Len(matches) > 0 /\ TextTaskScore > TextEventScore )
              => results[k].capture.kind = "task"

\* a component of a candidate in the request's zone: the parsed instant,
\* less the explicit offset if there is one, shown in the zone
Normalized(component) ==
    LET instant == IF component.timezoneOffset.defined
                   THEN component.date - component.timezoneOffset.value
                   ELSE component.date
    IN [wall |-> instant + ZoneOffset(CallTz), offset |-> Some(ZoneOffset(CallTz))]

\* C20: every event capture (capture i of a result is built from candidate
\* i) ends at its candidate's end, brought to the request's zone as the
\* start is, or, when the candidate has no end, at its start plus the
\* configured duration.
C20_EventEnd ==
    \A k \in Returned : \A i \in 1..Len(Captures(results[k])) :
        LET c == Captures(results[k])[i]
            candidate == CallCandidates(k)[i]
        IN c.kind = "event" =>
            /\ c.start = Normalized(candidate.start.value)
            /\ c.end = IF candidate.end.defined
                       THEN Normalized(candidate.end.value)
                       ELSE [ wall |-> c.start.wall + defaults.durationMinutes,
                              offset |-> c.start.offset ]

\* an event with a configured duration other than the shipped one, whose
\* candidates include one with an end and one without
C20_Witness ==
    \E k \in Returned :
        /\ results[k].capture.kind = "event"
        /\ defaults.durationMinutes # DEFAULTS.durationMinutes
        /\ Len(Captures(results[k])) >= 2
        /\ \E i, j \in 1..Len(Captures(results[k])) :
              /\ CallCandidates(k)[i].end.defined
              /\ ~CallCandidates(k)[j].end.defined

(***************************************************************************)
(* Properties of the worker.  They are stated of each handler and of what  *)
(* it read and was answered, whatever the other handlers did meanwhile.    *)
(***************************************************************************)
Handlers(type) == {i \in 1..Len(running) : running[i].type = type}

Done(i) == running[i].pc = "done"

\* on this step handler i, which was waiting, learns its answer
Learns(i) ==
    /\ i <= Len(running)
    /\ ~running[i].reply.defined
    /\ running'[i].reply.defined

\* the enrichment is disabled, has no key, uses the local provider, or the
\* service fails: the fetch rejects, the answer is an HTTP error, or the
\* answer holds no JSON object that parses
EnrichmentUnavailable(config, ai) ==
    \/ ~config.enabled
    \/ ~config.apiKey.defined \/ config.apiKey.value = ""
    \/ config.provider = "local"
    \/ ai.outcome \in {"rejects", "httpError", "invalidJson", "noJson"}

\* parse request i is answered and parseCapture returned a response for it
Parsed(i) ==
    /\ running[i].type = "quickadd:parse"
    /\ Done(i)
    /\ ~running[i].local.value.threw

\* C11: when the enrichment is unavailable, a parse request is answered
\* with 'quickadd:parse:result' carrying exactly what parseCapture
\* returned: capture, alternatives, warnings and diagnostics.
C11_EnrichmentUnavailable ==
    \A i \in 1..Len(running) :
        /\ Parsed(i)
        /\ EnrichmentUnavailable(running[i].settings.value.aiParser,
                                 running[i].environment.ai)
        => /\ running[i].reply.value.type = "quickadd:parse:result"
           /\ running[i].reply.value.payload = running[i].local.value

\* the ids of the stored history items
HistoryIds == [i \in 1..Len(history) |-> history[i].id]

\* on this step the writeHistory of a clear-history request is done
Clears(i) ==
    /\ i <= Len(running)
    /\ running[i].type = "quickadd:clear-history"
    /\ running[i].pc = "writeHistory"
    /\ running'[i].pc = "done"

\* C15: the stored history holds at most HISTORY_LIMIT items, and they are
\* the items recorded last, in the order they were recorded; a
\* clear-history request empties it and reports how many items it held.
C15_HistoryLimit ==
    /\ [](/\ Len(history) <= HISTORY_LIMIT
          /\ HistoryIds = SubSeq(recorded,
                                 Max(1, Len(recorded) - HISTORY_LIMIT + 1),
                                 Len(recorded)))
    /\ [][ \A i \in 1..Len(running) :
              Clears(i) => /\ history' = <<>>
                           /\ running[i].reply.value.payload.removed = Len(history) ]_vars

\* item and capture agree on kind, title without regard to letter case,
\* start or due, and source URL
SameCapture(item, capture) ==
    /\ item.kind = capture.kind
    /\ toLowerCase(item.title) = toLowerCase(capture.title)
    /\ item.sourceUrl = capture.source.url
    /\ IF capture.kind = "event" THEN item.start = Some(capture.start)
       ELSE item.due = Some(capture.due)

\* the items create request i read that agree with its capture
Twins(i) ==
    {k \in 1..Len(running[i].read) : SameCapture(running[i].read[k], running[i].payload.capture)}

\* create request i has read the history, it does not allow duplicates,
\* and an item it read agrees with its capture
ReadsDuplicate(i) ==
    /\ running[i].type = "quickadd:create"
    /\ running[i].pc # "readHistory"
    /\ running[i].payload.allowDuplicates # Some(TRUE)
    /\ Twins(i) # {}

\* C16: a create request without allowDuplicates whose capture agrees with
\* an item of the history it read calls no integration and writes no
\* history, and is answered ok=false, deduped=true with the id of such an
\* item; a create request writes the history only after an ok result, and
\* then writes the items it read followed by the item of its capture.
C16_DuplicateRejected ==
    /\ [](\A i \in 1..Len(running) :
            /\ ReadsDuplicate(i) =>
                 /\ running[i].pc \in {"sync.get", "local.get", "sync.set", "done"}
                 /\ running[i].called = <<>>
                 /\ running[i].items = running[i].read
                 /\ Done(i) =>
                      /\ running[i].reply.value.type = "quickadd:create:result"
                      /\ running[i].reply.value.payload.ok = FALSE
                      /\ running[i].reply.value.payload.deduped = Some(TRUE)
                      /\ \E k \in Twins(i) :
                            running[i].reply.value.payload.id = Some(running[i].read[k].id)
            /\ running[i].type = "quickadd:create" /\ running[i].items # running[i].read =>
                 /\ running[i].reply.value.type = "quickadd:create:result"
                 /\ running[i].reply.value.payload.ok
                 /\ Len(running[i].items) = Len(running[i].read) + 1
                 /\ SubSeq(running[i].items, 1, Len(running[i].read)) = running[i].read
                 /\ running[i].items[Len(running[i].items)].id = running[i].payload.capture.id)
    /\ [][ history' # history =>
              \E i \in 1..Len(running) :
                  /\ running[i].pc = "writeHistory"
                  /\ running'[i].pc = "done"
                  /\ running[i].type = "quickadd:create" =>
                        /\ ~ReadsDuplicate(i)
                        /\ running[i].reply.value.payload.ok ]_vars

\* the event under another identifier and with its title in lower case is
\* rejected with the id of the item stored for the event
C16_Witness ==
    \E i \in Handlers("quickadd:create") :
        /\ Done(i)
        /\ running[i].payload.capture.id # EventCapture.id
        /\ running[i].reply.value.payload.deduped = Some(TRUE)
        /\ running[i].reply.value.payload.id = Some(EventCapture.id)
        /\ Len(history) = 1
        /\ Len(providerCalls) = 1

\* the key a settings request asks to store
KeyToStore(h) ==
    LET apiKey == IF h.type = "quickadd:save-settings" THEN h.payload.aiParser.apiKey
                  ELSE h.payload.apiKey
    IN [ passed |-> apiKey,
         stored |-> IF apiKey.defined /\ apiKey.value # "" THEN apiKey ELSE Undefined ]

\* C17: the settings in sync storage never hold the key; when saveSettings
\* is through, local storage holds the key of the settings it saved, or no
\* key when they had none, and the settings it returns carry that key; the
\* settings getSettings returns carry the key it read from local storage.
C17_KeyNotSynced ==
    /\ [](syncSettings.defined => ~syncSettings.value.aiParser.apiKey.defined)
    /\ [][ \A i \in 1..Len(running) :
              Learns(i) /\ running[i].type \in {"quickadd:save-settings",
                                               "quickadd:set-ai-config"} =>
                 /\ localAiKey' = KeyToStore(running[i]).stored
                 /\ running'[i].reply.value.payload.aiParser.apiKey
                       = KeyToStore(running[i]).passed ]_vars
    /\ [](\A i \in Handlers("quickadd:get-settings") :
            Done(i) => running[i].reply.value.payload.aiParser.apiKey = running[i].aiKey)

\* settings are read back with the key that was saved, while sync storage
\* holds them without it
C17_Witness ==
    \E i \in Handlers("quickadd:get-settings") :
        /\ Done(i)
        /\ localAiKey = Some("key-1")
        /\ running[i].reply.value.payload.aiParser.apiKey = Some("key-1")
        /\ syncSettings.value.aiParser.enabled
        /\ ~syncSettings.value.aiParser.apiKey.defined

\* what enhanceWithAI returned to parse request i, Undefined when
\* handleParse did not call it or it returned null
Enrichment(i) ==
    LET config == running[i].settings.value.aiParser
    IN IF config.enabled /\ config.apiKey.defined /\ config.apiKey.value # ""
       THEN enhanceWithAI(running[i].payload, config, running[i].environment.ai)
       ELSE Undefined

\* parse request i was answered with a capture merged with the result of
\* the enrichment
Enriched(i) == Parsed(i) /\ Enrichment(i).defined

\* C21: when the enrichment returns a result, the answered capture keeps
\* the id, kind, source, timezone and reminder of the locally parsed
\* capture, takes title, location, attendees, notes and the temporal fields
\* of its kind from the enrichment where the enrichment has them and from
\* the local capture otherwise, has the larger of the two confidences, and
\* the alternatives, warnings and diagnostics are those of the local parse.
C21_MergeKeepsLocal ==
    \A i \in 1..Len(running) :
      Enriched(i) =>
       LET local == running[i].local.value
           ai == Enrichment(i).value
           answer == running[i].reply.value.payload
           merged == answer.capture
       IN /\ running[i].reply.value.type = "quickadd:parse:result"
          /\ merged.id = local.capture.id
          /\ merged.kind = local.capture.kind
          /\ merged.source = local.capture.source
          /\ merged.tz = local.capture.tz
          /\ merged.reminderMinutes = local.capture.reminderMinutes
          /\ merged.title = IF ai.title.defined THEN ai.title.value
                            ELSE local.capture.title
          /\ merged.location = IF ai.location.defined THEN ai.location
                               ELSE local.capture.location
          /\ merged.attendees = IF ai.attendees.defined THEN ai.attendees.value
                                ELSE local.capture.attendees
          /\ merged.notes = IF ai.notes.defined THEN ai.notes
                            ELSE local.capture.notes
          /\ IF merged.kind = "event"
             THEN /\ merged.start = IF ai.start.defined THEN ai.start.value
                                    ELSE local.capture.start
                  /\ merged.end = IF ai.end.defined THEN ai.end.value
                                  ELSE local.capture.end
             ELSE merged.due = IF ai.due.defined THEN ai.due.value
                               ELSE local.capture.due
          /\ merged.confidence >= local.capture.confidence
          /\ ai.confidence.defined => merged.confidence >= ai.confidence.value
          /\ \/ merged.confidence = local.capture.confidence
             \/ ai.confidence.defined /\ merged.confidence = ai.confidence.value
          /\ answer.alternatives = local.alternatives
          /\ answer.warnings = local.warnings
          /\ answer.diagnostics = local.diagnostics

\* an event parsed locally is merged with a result that has a title and a
\* lower confidence but neither location nor notes
C21_Witness ==
    \E i \in 1..Len(running) :
        /\ Enriched(i)
        /\ running[i].local.value.capture.kind = "event"
        /\ Enrichment(i).value.title.defined
        /\ ~Enrichment(i).value.location.defined
        /\ Enrichment(i).value.confidence.defined
        /\ Enrichment(i).value.confidence.value < running[i].local.value.capture.confidence
        /\ running[i].reply.value.payload.capture.title = Enrichment(i).value.title.value
        /\ running[i].reply.value.payload.capture.title
              # running[i].local.value.capture.title
        /\ running[i].reply.value.payload.capture.confidence
              = running[i].local.value.capture.confidence

\* C25: an event capture answered after a merge with the result of the
\* enrichment has its end at or after its start.
C25_MergedEndNotBeforeStart ==
    \A i \in 1..Len(running) :
        Enriched(i) /\ running[i].reply.value.payload.capture.kind = "event" =>
           IsoInstant(running[i].reply.value.payload.capture.end)
              >= IsoInstant(running[i].reply.value.payload.capture.start)

\* the provider name each integration answers with
IntegrationProvider(integration) ==
    CASE integration = "createGoogleCalendarEvent" -> "google-calendar"
      [] integration = "createGoogleTask" -> "google-tasks"
      [] integration = "createIcsDownload" -> "ics"

\* C22: a create request calls at most one integration, with its own
\* capture; createGoogleCalendarEvent is called only with an event and
\* createGoogleTask only with a task; an event asked for google-tasks or
\* microsoft-todo is answered by google-calendar and a task asked for
\* google-calendar or microsoft-calendar by google-tasks, whether the
\* provider comes from the request or from the settings; and the answer
\* names the provider of the integration that was called.  The calls on
\* record are those the create requests made, in the order they made them.
C22_ProviderRouting ==
    /\ [](\A i \in Handlers("quickadd:create") :
            LET request == running[i].payload
                kind == request.capture.kind
                calls == running[i].called
                answered == /\ running[i].reply.defined
                            /\ running[i].reply.value.type = "quickadd:create:result"
                requested == IF request.provider.defined THEN request.provider.value
                             ELSE running[i].settings.value.provider
                answer == running[i].reply.value.payload
            IN /\ Len(calls) <= 1
               /\ \A k \in 1..Len(calls) :
                     /\ calls[k].capture = request.capture.id
                     /\ calls[k].kind = kind
                     /\ calls[k].integration = "createGoogleCalendarEvent" => kind = "event"
                     /\ calls[k].integration = "createGoogleTask" => kind = "task"
                     /\ answered =>
                           answer.provider = IntegrationProvider(calls[k].integration)
               /\ answered /\ kind = "event"
                     /\ requested \in {"google-tasks", "microsoft-todo"} =>
                       /\ answer.provider = "google-calendar"
                       /\ \A k \in 1..Len(calls) :
                             calls[k].integration = "createGoogleCalendarEvent"
               /\ answered /\ kind = "task"
                     /\ requested \in {"google-calendar", "microsoft-calendar"} =>
                       /\ answer.provider = "google-tasks"
                       /\ \A k \in 1..Len(calls) :
                             calls[k].integration = "createGoogleTask")
    /\ [][ \/ /\ providerCalls' = providerCalls
              /\ \A i \in 1..Len(running) : running'[i].called = running[i].called
           \/ \E i \in Handlers("quickadd:create") :
                 /\ running[i].called = <<>>
                 /\ providerCalls' = providerCalls \o running'[i].called
                 /\ \A j \in 1..Len(running) :
                       j # i => running'[j].called = running[j].called ]_vars

\* an event created while the settings name google-tasks as the default
\* provider went to createGoogleCalendarEvent
C22_Witness ==
    \E i \in Handlers("quickadd:create") :
        /\ Done(i)
        /\ ~running[i].payload.provider.defined
        /\ running[i].payload.capture.kind = "event"
        /\ running[i].settings.value.provider = "google-tasks"
        /\ Len(providerCalls) = 1
        /\ providerCalls[1].integration = "createGoogleCalendarEvent"
        /\ running[i].reply.value.payload.ok
        /\ running[i].reply.value.payload.provider = "google-calendar"
        /\ running[i].reply.value.payload.warning
              = Some("Switched to Google Calendar for event capture.")

\* create request i has been answered with ok=true
AnsweredOk(i) ==
    /\ running[i].type = "quickadd:create"
    /\ Done(i)
    /\ running[i].reply.value.type = "quickadd:create:result"
    /\ running[i].reply.value.payload.ok

\* C23: of two create requests for the same capture, both without
\* allowDuplicates, handled at the same time, at most one is answered
\* ok=true and at most one reaches an integration; when one is answered
\* ok=true the other is answered as a duplicate.
C23_ConcurrentDuplicate ==
    \A i, j \in Handlers("quickadd:create") :
        /\ i # j
        /\ running[i].payload.capture = running[j].payload.capture
        /\ running[i].payload.allowDuplicates # Some(TRUE)
        /\ running[j].payload.allowDuplicates # Some(TRUE)
        =>
        /\ Len(SelectSeq(providerCalls,
                         LAMBDA made : made.capture = running[i].payload.capture.id)) <= 1
        /\ AnsweredOk(i) /\ Done(j) =>
              /\ running[j].reply.value.type = "quickadd:create:result"
              /\ ~running[j].reply.value.payload.ok
              /\ running[j].reply.value.payload.deduped = Some(TRUE)

\* C24: while no history is cleared, the stored history holds an item for
\* the capture of every create request answered ok=true, also when requests
\* are handled at the same time (with the requests of one run no item of
\* theirs is evicted).
C24_HistoryKeepsCreated ==
    Handlers("quickadd:clear-history") = {} =>
        \A i \in 1..Len(running) :
            AnsweredOk(i) =>
               \E k \in 1..Len(history) : history[k].id = running[i].payload.capture.id

\* the first request of the call was answered 401
FirstUnauthorized ==
    /\ Len(fetch.requests) >= 1
    /\ ~fetch.requests[1].outcome.rejected
    /\ fetch.requests[1].outcome.status = 401

\* what one call of googleFetch has done so far
FetchBounded ==
    /\ Len(fetch.requests) <= 2
    /\ Len(fetch.invalidated) <= 1
    /\ Len(fetch.requests) = 2 => FirstUnauthorized /\ Len(fetch.invalidated) = 1
    /\ Len(fetch.invalidated) = 1 =>
          FirstUnauthorized /\ fetch.invalidated[1].token = fetch.requests[1].token
    /\ fetch.pc = "done" /\ FirstUnauthorized =>
          /\ Len(fetch.invalidated) = 1
          /\ ~fetch.retry
          /\ fetch.token.defined => Len(fetch.requests) = 2
    /\ fetch.pc = "done" /\ Len(fetch.requests) = 2
          /\ ~fetch.requests[2].outcome.rejected =>
          fetch.result = Some([threw |-> FALSE,
                               status |-> fetch.requests[2].outcome.status])

\* C26: a call of googleFetch sends at most two requests and invalidates
\* at most one token; a 401 to the first request invalidates the token of
\* that request and is followed by exactly one more request when a token
\* is acquired again; the answer to the second request is returned
\* whatever its status; and a call whose awaits all return comes to an end.
C26_FetchRetriesOnce ==
    /\ []FetchBounded
    /\ (fetch.pc # "idle") ~> (fetch.pc = "done")

\* both requests were answered 401 and the second 401 was returned
C26_Witness ==
    /\ fetch.pc = "done"
    /\ Len(fetch.requests) = 2
    /\ fetch.requests[2].outcome.status = 401
    /\ ~fetch.requests[2].outcome.rejected
    /\ Len(fetch.invalidated) = 1
    /\ fetch.result = Some([threw |-> FALSE, status |-> 401])

\* the result of call k warns that an event was captured as a task
Downgraded(k) ==
    \E i \in 1..Len(Warnings(results[k])) : Warnings(results[k])[i] = DowngradeWarning

\* C27: a result carries the warning "Could not detect a date/time.
\* Captured as task." only when the request forced the kind event (and
\* there was no candidate); without a forced kind and without a candidate
\* the text is classified task, whatever its scores and clock-time flag.
C27_DowngradeOnlyForced ==
    \A k \in Returned :
        /\ Downgraded(k) => payload.forcedKind = Some("event") /\ Len(matches) = 0
        /\ ~payload.forcedKind.defined /\ Len(matches) = 0 =>
              /\ results[k].capture.kind = "task"
              /\ results[k].diagnostics.chosenKind = "task"
              /\ ~Downgraded(k)

\* a text with a clock time and a higher event score than task score,
\* without a candidate and without a forced kind, is a task without warning
C27_Witness ==
    \E k \in Returned :
        /\ ~payload.forcedKind.defined /\ Len(matches) = 0
        /\ TextClockTime /\ TextEventScore > TextTaskScore
        /\ results[k].capture.kind = "task"
        /\ ~Downgraded(k)

\* the message is of a type the union declares
DeclaredIn(types) ==
    /\ message.defined /\ message.value.value = "object"
    /\ message.value.type.defined /\ message.value.type.value.string
    /\ message.value.type.value.text \in types

\* C30: for a message of a type that BackgroundRequest, BackgroundResponse
\* or ContentMessage declares, exactly one of the three guards says true,
\* and it is the guard of the union that declares the type.
C30_GuardsAgree ==
    verdicts.request.defined /\ verdicts.response.defined /\ verdicts.content.defined =>
        /\ DeclaredIn(BackgroundRequestTypes) =>
              verdicts.request.value /\ ~verdicts.response.value /\ ~verdicts.content.value
        /\ DeclaredIn(BackgroundResponseTypes) =>
              ~verdicts.request.value /\ verdicts.response.value /\ ~verdicts.content.value
        /\ DeclaredIn(ContentMessageTypes) =>
              ~verdicts.request.value /\ ~verdicts.response.value /\ verdicts.content.value

\* the parse requests answered so far, as indices of settled
ParsesAnswered == {k \in 1..Len(settled) : settled[k].request.message.type = "quickadd:parse"}

\* the parse request triggered last among those answered
LatestParse ==
    CHOOSE k \in ParsesAnswered :
        \A j \in ParsesAnswered : settled[j].request.nr <= settled[k].request.nr

ParseInFlight == \E i \in 1..Len(pending) : pending[i].message.type = "quickadd:parse"

\* the identifiers of the capture of a parse response and of its alternatives
ResponseIds(response) ==
    {response.capture.id}
    \cup (IF response.alternatives.defined
          THEN {response.alternatives.value[k].id : k \in 1..Len(response.alternatives.value)}
          ELSE {})

\* C28: once every parse request is answered, and the one triggered last was
\* answered with a result, the visible card shows the result of that parse:
\* its parse result, its alternatives and its warnings, and a draft that is
\* its capture or one of its alternatives, as parsed or as edited in the card
\* since (an edit keeps the identifier).  The answer to an older parse that
\* arrives late does not replace them.
C28_LatestParseShown ==
    ( /\ ~ParseInFlight
      /\ ParsesAnswered # {}
      /\ state.isCardVisible
      /\ settled[LatestParse].response.type = "quickadd:parse:result" )
    => /\ state.parseResult = Some(settled[LatestParse].response.payload)
       /\ state.alternatives = settled[LatestParse].response.payload.alternatives
       /\ state.warnings = settled[LatestParse].response.payload.warnings
       /\ state.captureDraft.defined
       /\ state.captureDraft.value.id \in ResponseIds(settled[LatestParse].response.payload)

AnswerArrives(type) ==
    /\ Len(settled') = Len(settled) + 1
    /\ settled'[Len(settled')].request.message.type = type

CardCloses ==
    /\ state.isCardVisible
    /\ ~state'.isCardVisible
    /\ settled' = settled

\* C29: the step on which the answer to a parse request arrives (a result,
\* another type of message, or a rejection) leaves isParsing false, the
\* step on which the answer to a create request arrives leaves isSaving
\* false, closing the card leaves both false, and when every request is
\* answered in the end a card that is parsing or saving stops doing so.
C29_LoadingEnds ==
    /\ [][AnswerArrives("quickadd:parse") => ~state'.isParsing]_vars
    /\ [][AnswerArrives("quickadd:create") => ~state'.isSaving]_vars
    /\ [][CardCloses => ~state'.isParsing /\ ~state'.isSaving]_vars
    /\ state.isParsing ~> ~state.isParsing
    /\ state.isSaving ~> ~state.isSaving

\* a parse was answered with a result, the create that followed with another
\* type of message, and the card is neither parsing nor saving
C29_Witness ==
    /\ \E k \in 1..Len(settled) :
        /\ settled[k].request.message.type = "quickadd:parse"
        /\ settled[k].response.type = "quickadd:parse:result"
    /\ \E k \in 1..Len(settled) :
        /\ settled[k].request.message.type = "quickadd:create"
        /\ settled[k].response = UnexpectedResponse
    /\ ~state.isParsing
    /\ ~state.isSaving

====
